---- MODULE Spec2Model ----
(***************************************************************************)
(* Model of the RBI24 Telegram bot (src/index.js).                         *)
(*                                                                         *)
(* src/index.js holds two generations of the bot one after the other:      *)
(* version 2.0 (lines 1-1805) and the legacy bot (lines 1811-2629).  The   *)
(* model follows version 2.0 and takes from the legacy part what only it   *)
(* has (the investment / withdrawal requests and their sync scan).         *)
(*                                                                         *)
(* Sheets are sequences of rows without the header row, so that row i of   *)
(* the model is data[i] of the code and sheet row number i + 1.            *)
(* Texts are sequences of one-character strings (so that trimming, case    *)
(* folding, prefix tests and the email pattern are computed, not assumed). *)
(* Time is counted in ticks; Day ticks are the 24 hours of the code.       *)
(***************************************************************************)
EXTENDS Integers, Sequences, FiniteSets, TLC

VARIABLES
    now,                \* the clock (new Date() / getNow())
    Users,              \* sheet "Users"
    State,              \* sheet "State" (the sessions)
    Tickets,            \* sheet "Tickets"
    TicketRateLimits,   \* sheet "TicketRateLimits"
    EmailLog,           \* sheet "EmailLog"
    InvestRequests,     \* sheet "InvestRequests"
    WithdrawRequests,   \* sheet "WithdrawRequests"
    nextMid,            \* the message id the chat transport hands out next
    chatMenus,          \* the menu messages present in the chats: <<chat, message id>>
    reply,              \* the admin's ticket answer handler, between its awaits
    sync,               \* the GET /admin/sync handler, between its rows
    deliveries,         \* history: the notifications handed to the transport
    Announcements,      \* sheet "Announcements"
    BroadcastLogs,      \* sheet "BroadcastLogs"
    FilteredBroadcast,  \* sheet "FilteredBroadcast"
    batch,              \* handleBroadcast / handleFilteredBroadcast, between its recipients
    inflight,           \* the event handlers that are between two of their awaits
    callLog,            \* history: every rate limiter call, per identity and action
    lastEvt             \* history: the event handled last and the state it found

vars == <<now, Users, State, Tickets, TicketRateLimits, EmailLog,
          InvestRequests, WithdrawRequests, nextMid, chatMenus, reply, sync,
          deliveries, Announcements, BroadcastLogs, FilteredBroadcast, batch,
          inflight, callLog, lastEvt>>

\* the sheets and the handler of the admin's announcements and broadcasts,
\* and the handlers taken apart at their awaits
adminVars == <<Announcements, BroadcastLogs, FilteredBroadcast, batch, inflight>>

\* what the handlers of user events leave alone
syncVars == <<InvestRequests, WithdrawRequests, reply, sync, deliveries, adminVars>>

----------------------------------------------------------------------------
(* Program constants and model bounds *)

Day == 3                \* 24 * 60 * 60 * 1000 ms, in ticks
Limit == 3              \* "if (count >= 3) return false"
ADMIN_CHAT_ID == "admin"

NoMenu == 0             \* lastMenu: "" (no menu message recorded)

MaxTime == 6            \* the clock stops here
MaxCalls == 7           \* rate limiter calls recorded in SpecRate
MaxMid == 3             \* message ids handed out
MaxTickets == 4         \* rows of the Tickets sheet

RateUsers == {"u1"}     \* the identities that call the limiters in SpecRate
RateActions == {"ticket", "email"}

NoEvt ==
    [route |-> "none", user |-> "", text |-> <<>>, t |-> 0, step |-> "",
     tempData |-> <<>>, lastMenu |-> NoMenu, email |-> <<>>, emailConfirmed |-> "No",
     nTickets |-> 0, denied |-> FALSE, issued |-> "none", cb |-> NoMenu, deleted |-> {},
     said |-> "none", threw |-> 0, alerted |-> FALSE,
     stale |-> FALSE]

----------------------------------------------------------------------------
(* Texts *)

Txt_start == <<"/", "s", "t", "a", "r", "t">>
Txt_admin == <<"/", "a", "d", "m", "i", "n">>
Txt_announce == <<"/", "a", "n", "n", "o", "u", "n", "c", "e", " ">>
Txt_reply == <<"/", "r", "e", "p", "l", "y", "_">>
Txt_tkt == <<"T", "K", "T", "_">>
Txt_Yes == <<"Y", "e", "s">>
Txt_yes == <<"y", "e", "s">>
Txt_No == <<"N", "o">>
Txt_Pending == <<"P", "e", "n", "d", "i", "n", "g">>
Txt_Accepted == <<"A", "c", "c", "e", "p", "t", "e", "d">>

Digits == <<"0", "1", "2", "3", "4", "5", "6", "7", "8", "9">>
Digit(n) == Digits[n + 1]

IsSpace(c) == c = " "

\* String.prototype.toLowerCase on the letters the model uses
LowerChar(c) ==
    CASE c = "A" -> "a"
      [] c = "B" -> "b"
      [] c = "C" -> "c"
      [] c = "T" -> "t"
      [] c = "K" -> "k"
      [] c = "Y" -> "y"
      [] c = "N" -> "n"
      [] c = "P" -> "p"
      [] c = "R" -> "r"
      [] OTHER -> c
toLowerCase(text) == [i \in 1..Len(text) |-> LowerChar(text[i])]

\* String.prototype.trim
RECURSIVE trim(_)
trim(text) ==
    IF text = <<>> THEN <<>>
    ELSE IF IsSpace(Head(text)) THEN trim(Tail(text))
    ELSE IF IsSpace(text[Len(text)]) THEN trim(SubSeq(text, 1, Len(text) - 1))
    ELSE text

startsWith(text, prefix) ==
    /\ Len(text) >= Len(prefix)
    /\ SubSeq(text, 1, Len(prefix)) = prefix

\* text.replace(prefix, "") for a text that starts with prefix
dropPrefix(text, prefix) == SubSeq(text, Len(prefix) + 1, Len(text))

\* /^[^\s@]+@[^\s@]+\.[^\s@]+$/
isValidEmail(email) ==
    /\ \A i \in 1..Len(email) : ~IsSpace(email[i])
    /\ Cardinality({i \in 1..Len(email) : email[i] = "@"}) = 1
    /\ LET at == CHOOSE i \in 1..Len(email) : email[i] = "@" IN
         /\ at > 1
         /\ \E d \in (at + 2)..(Len(email) - 1) : email[d] = "."

----------------------------------------------------------------------------
(* Google Sheets helpers *)

findIndexByFirstCol(data, val) ==
    IF \E i \in 1..Len(data) : data[i].key = val
    THEN CHOOSE i \in 1..Len(data) :
            /\ data[i].key = val
            /\ \A j \in 1..(i - 1) : data[j].key # val
    ELSE -1

----------------------------------------------------------------------------
(* User management *)

\* getUserById(userId): the row, or a record with found = FALSE for null
getUserById(rows, userId) ==
    LET idx == findIndexByFirstCol(rows, userId) IN
    IF idx = -1 THEN [found |-> FALSE, email |-> <<>>, emailConfirmed |-> "No"]
    ELSE [found |-> TRUE, email |-> rows[idx].email,
          emailConfirmed |-> IF rows[idx].emailConfirmed = "" THEN "No"
                             ELSE rows[idx].emailConfirmed]

\* registerOrUpdateUser(userId, firstName, lastName, username, email, emailConfirmed);
\* a null email is <<>>, a null emailConfirmed is ""
registerOrUpdateUser(rows, userId, email, emailConfirmed, t) ==
    LET idx == findIndexByFirstCol(rows, userId) IN
    IF idx > -1
    THEN [rows EXCEPT ![idx] =
            [@ EXCEPT !.email = IF email # <<>> THEN email ELSE @,
                      !.emailConfirmed = IF emailConfirmed # "" THEN emailConfirmed ELSE @,
                      !.lastActive = t]]
    ELSE Append(rows, [key |-> userId, email |-> email,
                       emailConfirmed |-> IF emailConfirmed # "" THEN emailConfirmed ELSE "No",
                       joinedAt |-> t, lastActive |-> t])

\* users.find(r => lower(r[4]) === lower(text) && r[0] !== userId)
emailTaken(rows, userId, text) ==
    \E i \in 1..Len(rows) :
        /\ toLowerCase(rows[i].email) = toLowerCase(text)
        /\ rows[i].key # userId

----------------------------------------------------------------------------
(* User state management *)

IdleState == [step |-> "", tempData |-> <<>>, lastMenu |-> NoMenu, tempEmail |-> <<>>]

getUserState(rows, userId) ==
    LET idx == findIndexByFirstCol(rows, userId) IN
    IF idx = -1 THEN IdleState
    ELSE [step |-> rows[idx].step, tempData |-> rows[idx].tempData,
          lastMenu |-> rows[idx].lastMenu, tempEmail |-> rows[idx].tempEmail]

\* fields is a record holding any of step, tempData, lastMenu, tempEmail
Field(fields, name, default) ==
    IF name \in DOMAIN fields THEN fields[name] ELSE default

setUserStateFields(rows, userId, fields) ==
    LET idx == findIndexByFirstCol(rows, userId) IN
    IF idx = -1
    THEN Append(rows, [key |-> userId,
                       step |-> Field(fields, "step", ""),
                       tempData |-> Field(fields, "tempData", <<>>),
                       lastMenu |-> Field(fields, "lastMenu", NoMenu),
                       tempEmail |-> Field(fields, "tempEmail", <<>>)])
    ELSE [rows EXCEPT ![idx] =
            [key |-> @.key,
             step |-> Field(fields, "step", @.step),
             tempData |-> Field(fields, "tempData", @.tempData),
             lastMenu |-> Field(fields, "lastMenu", @.lastMenu),
             tempEmail |-> Field(fields, "tempEmail", @.tempEmail)]]

\* a clearUserState that leaves the step
clearUserStateKeepsStep(rows, userId) ==
    LET idx == findIndexByFirstCol(rows, userId) IN
    IF idx = -1 THEN rows
    ELSE [rows EXCEPT ![idx] = [key |-> userId, step |-> rows[idx].step] @@ IdleState]

clearUserState(rows, userId) ==
    LET idx == findIndexByFirstCol(rows, userId) IN
    IF idx = -1 THEN rows
    ELSE [rows EXCEPT ![idx] = [key |-> userId] @@ IdleState]

----------------------------------------------------------------------------
(* Menu management *)

\* the test of deleteMenuIfExists: a menu is recorded and is not the excepted one
MenuToDeleteNever(rows, userId, exceptMessageId) == FALSE
MenuToDeleteAnyRecorded(rows, userId, exceptMessageId) ==
    getUserState(rows, userId).lastMenu # NoMenu
MenuToDelete(rows, userId, exceptMessageId) ==
    LET last == getUserState(rows, userId).lastMenu IN
    last # NoMenu /\ last # exceptMessageId

\* a deleteMenuIfExists that gives up when the message cannot be deleted
deleteMenuIfDeletable(rows, userId, exceptMessageId) ==
    IF /\ MenuToDelete(rows, userId, exceptMessageId)
       /\ <<userId, getUserState(rows, userId).lastMenu>> \in chatMenus
    THEN setUserStateFields(rows, userId, [lastMenu |-> NoMenu])
    ELSE rows

\* deleteMenuIfExists(userId, chatId, exceptMessageId): the State sheet it leaves
\* (a failure of deleteMessage is swallowed by telegramCall)
deleteMenuIfExists(rows, userId, exceptMessageId) ==
    IF MenuToDelete(rows, userId, exceptMessageId)
    THEN setUserStateFields(rows, userId, [lastMenu |-> NoMenu])
    ELSE rows

----------------------------------------------------------------------------
(* Rate limiting *)

\* lastTicket > oneDayAgo, with oneDayAgo = now - 24h
InWindow(last, t) == last > t - Day

AtLimitOffByOne(count) == count > Limit
AtLimit(count) == count >= Limit

\* a canSendTicket whose denial stamps the row with the time of the call
canSendTicketDenialStamps(rows, userId, t) ==
    LET idx == findIndexByFirstCol(rows, userId) IN
    IF idx > -1
    THEN LET row == rows[idx] IN
         IF InWindow(row.last, t)
         THEN IF AtLimit(row.count)
              THEN [ok |-> FALSE,
                    rows |-> [rows EXCEPT ![idx] = [row EXCEPT !.last = t]]]
              ELSE [ok |-> TRUE,
                    rows |-> [rows EXCEPT ![idx] =
                                [row EXCEPT !.count = row.count + 1, !.last = t]]]
         ELSE [ok |-> TRUE,
               rows |-> [rows EXCEPT ![idx] = [row EXCEPT !.count = 1, !.last = t]]]
    ELSE [ok |-> TRUE,
          rows |-> Append(rows, [key |-> userId, count |-> 1, last |-> t])]

\* a canSendTicket with a fixed window: the row keeps the time of its reset
canSendTicketFixedWindow(rows, userId, t) ==
    LET idx == findIndexByFirstCol(rows, userId) IN
    IF idx > -1
    THEN LET row == rows[idx] IN
         IF InWindow(row.last, t)
         THEN IF AtLimit(row.count)
              THEN [ok |-> FALSE, rows |-> rows]
              ELSE [ok |-> TRUE,
                    rows |-> [rows EXCEPT ![idx] =
                                [row EXCEPT !.count = row.count + 1]]]
         ELSE [ok |-> TRUE,
               rows |-> [rows EXCEPT ![idx] = [row EXCEPT !.count = 1, !.last = t]]]
    ELSE [ok |-> TRUE,
          rows |-> Append(rows, [key |-> userId, count |-> 1, last |-> t])]

\* canSendTicket(userId): the answer and the sheet it leaves
canSendTicket(rows, userId, t) ==
    LET idx == findIndexByFirstCol(rows, userId) IN
    IF idx > -1
    THEN LET row == rows[idx] IN
         IF InWindow(row.last, t)
         THEN IF AtLimit(row.count)
              THEN [ok |-> FALSE, rows |-> rows]
              ELSE [ok |-> TRUE,
                    rows |-> [rows EXCEPT ![idx] =
                                [row EXCEPT !.count = row.count + 1, !.last = t]]]
         ELSE [ok |-> TRUE,
               rows |-> [rows EXCEPT ![idx] = [row EXCEPT !.count = 1, !.last = t]]]
    ELSE [ok |-> TRUE,
          rows |-> Append(rows, [key |-> userId, count |-> 1, last |-> t])]

\* canSendEmailToUser(userId, email): the answer and the sheet it leaves
canSendEmailToUser(rows, userId, email, t) ==
    LET idx == findIndexByFirstCol(rows, userId) IN
    IF idx > -1
    THEN LET row == rows[idx] IN
         IF InWindow(row.last, t)
         THEN IF AtLimit(row.count)
              THEN [ok |-> FALSE, rows |-> rows]
              ELSE [ok |-> TRUE,
                    rows |-> [rows EXCEPT ![idx] =
                                [row EXCEPT !.count = row.count + 1, !.last = t]]]
         ELSE [ok |-> TRUE,
               rows |-> [rows EXCEPT ![idx] = [row EXCEPT !.count = 1, !.last = t]]]
    ELSE [ok |-> TRUE,
          rows |-> Append(rows, [key |-> userId, email |-> email,
                                 count |-> 1, last |-> t])]

----------------------------------------------------------------------------
(* handleUpdate: routing.  One route is taken per event, the first whose    *)
(* test matches, in the order of the if-chain of the code.                  *)

\* an admin test that every sender passes
IsAdminAnyone(userId) == TRUE

IsAdmin(userId) == userId = ADMIN_CHAT_ID

\* the text part of handleUpdate (text is message.text, trimmed)
TextRoute(userId, step, text) ==
    IF IsAdmin(userId) /\ text = Txt_admin THEN "admin"
    ELSE IF IsAdmin(userId) /\ startsWith(text, Txt_announce) THEN "announce"
    ELSE IF IsAdmin(userId) /\ step = "awaiting_broadcast_message" /\ text # <<>>
         THEN "broadcast"
    ELSE IF IsAdmin(userId) /\ step = "awaiting_filtered_ids" /\ text # <<>>
         THEN "filtered_ids"
    ELSE IF IsAdmin(userId) /\ step = "awaiting_filtered_message" /\ text # <<>>
         THEN "filtered_message"
    ELSE IF IsAdmin(userId) /\ step = "awaiting_ticket_reply" /\ text # <<>>
         THEN "ticket_reply"
    ELSE IF text = Txt_start THEN "start"
    ELSE IF step = "awaiting_email_1" /\ text # <<>> THEN "awaiting_email_1"
    ELSE IF step = "awaiting_email_2" /\ text # <<>> THEN "awaiting_email_2"
    ELSE IF step = "awaiting_ticket_email_1" /\ text # <<>> THEN "awaiting_ticket_email_1"
    ELSE IF step = "awaiting_ticket_email_2" /\ text # <<>> THEN "awaiting_ticket_email_2"
    ELSE IF step = "awaiting_ticket_message" /\ text # <<>> THEN "awaiting_ticket_message"
    ELSE IF IsAdmin(userId) /\ startsWith(text, Txt_reply) THEN "reply_cmd"
    ELSE IF text # <<>> /\ step = "" THEN "default"
    ELSE "none"

\* what handleUpdate finds when an event arrives (history only)
Found(userId, route, text) ==
    LET st == getUserState(State, userId)
        rec == getUserById(Users, userId)
    IN [route |-> route, user |-> userId, text |-> text, t |-> now,
        step |-> st.step, tempData |-> st.tempData, lastMenu |-> st.lastMenu,
        email |-> rec.email, emailConfirmed |-> rec.emailConfirmed,
        nTickets |-> Len(Tickets), denied |-> FALSE,
        issued |-> "none", cb |-> NoMenu, deleted |-> {}, said |-> "none",
        threw |-> 0, alerted |-> FALSE, stale |-> FALSE]

\* the per-event user upsert: registerOrUpdateUser(userId, ..., null, null)
Upsert(userId) == registerOrUpdateUser(Users, userId, <<>>, "", now)

\* const mid = await sendMessage(...); if (mid) setUserStateFields({lastMenu: mid})
\* ok: the transport delivered the message and returned its id
RecordMenu(rows, userId, ok) ==
    IF ok THEN setUserStateFields(rows, userId, [lastMenu |-> nextMid]) ELSE rows

Sent(ok) ==
    /\ ok => nextMid <= MaxMid
    /\ nextMid' = IF ok THEN nextMid + 1 ELSE nextMid

\* the message deleteMenuIfExists asks the transport to delete
Deleted(rows, userId, exceptMessageId) ==
    IF MenuToDelete(rows, userId, exceptMessageId)
    THEN {<<userId, getUserState(rows, userId).lastMenu>>}
    ELSE {}

\* the chats after the deletion of del and, if ok, the sending of a menu to userId
Chat(userId, del, ok) ==
    chatMenus' = (chatMenus \ del) \cup (IF ok THEN {<<userId, nextMid>>} ELSE {})

\* history: the menu an event issued ("send", "edit" or "none"), the message
\* the selection came from and the messages it deleted
\* (stale: none of the messages to delete was in the chat any more)
Issued(evt, kind, cb, del) ==
    [evt EXCEPT !.issued = kind, !.cb = cb, !.deleted = del,
                !.stale = del # {} /\ del \cap chatMenus = {}]
SendKind(ok) == IF ok THEN "send" ELSE "none"

\* history: the message an email step hands to sendMessage for the user
Said(evt, msg) == [evt EXCEPT !.said = msg]

----------------------------------------------------------------------------
(* handleUpdate: the text routes of a user *)

\* text === "/start"
TextStart(u, raw, ok) ==
    LET text == trim(raw)
        user == getUserById(Upsert(u), u)
        S1 == deleteMenuIfExists(State, u, NoMenu)
    IN /\ TextRoute(u, getUserState(State, u).step, text) = "start"
       /\ Users' = Upsert(u)
       /\ IF user.found /\ user.email # <<>> /\ user.emailConfirmed = "Yes"
          THEN /\ State' = RecordMenu(S1, u, ok)
               /\ Sent(ok)
               /\ Chat(u, Deleted(State, u, NoMenu), ok)
               /\ lastEvt' = Issued(Found(u, "start", text), SendKind(ok), NoMenu,
                                    Deleted(State, u, NoMenu))
          ELSE /\ State' = setUserStateFields(S1, u,
                               [step |-> "awaiting_email_1", tempData |-> <<>>])
               /\ ~ok
               /\ Chat(u, Deleted(State, u, NoMenu), FALSE)
               /\ lastEvt' = Issued(Found(u, "start", text), "none", NoMenu,
                                    Deleted(State, u, NoMenu))
               /\ UNCHANGED nextMid
       /\ UNCHANGED <<now, Tickets, TicketRateLimits, EmailLog, callLog>>
       /\ UNCHANGED syncVars

\* if (!isValidEmail(text)) { ...; return; }
EmailRejectedNever(text) == FALSE
EmailRejected(text) == ~isValidEmail(text)

\* step === "awaiting_email_1"
TextEmail1(u, raw) ==
    LET text == trim(raw) IN
    /\ TextRoute(u, getUserState(State, u).step, text) = "awaiting_email_1"
    /\ Users' = Upsert(u)
    /\ State' = IF ~EmailRejected(text) /\ ~emailTaken(Upsert(u), u, text)
                THEN setUserStateFields(State, u,
                        [step |-> "awaiting_email_2", tempData |-> text])
                ELSE State
    /\ lastEvt' = Said(Found(u, "awaiting_email_1", text),
                       IF EmailRejected(text) THEN "invalid_email"
                       ELSE IF emailTaken(Upsert(u), u, text) THEN "duplicate_email"
                       ELSE "confirm_email")
    /\ UNCHANGED <<now, Tickets, TicketRateLimits, EmailLog, nextMid, chatMenus, callLog>>
    /\ UNCHANGED syncVars

\* text.toLowerCase() !== firstEmail.toLowerCase()
MismatchExact(text, firstEmail) == text # firstEmail
MismatchNever(text, firstEmail) == FALSE
Mismatch(text, firstEmail) == toLowerCase(text) # toLowerCase(firstEmail)

\* step === "awaiting_email_2"
TextEmail2(u, raw, ok) ==
    LET text == trim(raw)
        firstEmail == getUserState(State, u).tempData
        S1 == deleteMenuIfExists(State, u, NoMenu)
    IN /\ TextRoute(u, getUserState(State, u).step, text) = "awaiting_email_2"
       /\ IF Mismatch(text, firstEmail)
          THEN /\ Users' = Upsert(u)
               /\ State' = setUserStateFields(State, u,
                               [step |-> "awaiting_email_1", tempData |-> <<>>])
               /\ ~ok
               /\ lastEvt' = Found(u, "awaiting_email_2", text)
               /\ UNCHANGED <<EmailLog, nextMid, chatMenus>>
          ELSE /\ Users' = registerOrUpdateUser(Upsert(u), u, firstEmail, "Yes", now)
               /\ EmailLog' = canSendEmailToUser(EmailLog, u, firstEmail, now).rows
               /\ State' = clearUserState(RecordMenu(S1, u, ok), u)
               /\ Sent(ok)
               /\ Chat(u, Deleted(State, u, NoMenu), ok)
               /\ lastEvt' = Issued(Found(u, "awaiting_email_2", text), SendKind(ok),
                                    NoMenu, Deleted(State, u, NoMenu))
       /\ UNCHANGED <<now, Tickets, TicketRateLimits, callLog>>
       /\ UNCHANGED syncVars

\* step === "awaiting_ticket_email_1"
TextTicketEmail1(u, raw) ==
    LET text == trim(raw) IN
    /\ TextRoute(u, getUserState(State, u).step, text) = "awaiting_ticket_email_1"
    /\ Users' = Upsert(u)
    /\ State' = IF ~EmailRejected(text)
                THEN setUserStateFields(State, u,
                        [step |-> "awaiting_ticket_email_2", tempData |-> text])
                ELSE State
    /\ lastEvt' = Said(Found(u, "awaiting_ticket_email_1", text),
                       IF EmailRejected(text) THEN "invalid_email" ELSE "confirm_email")
    /\ UNCHANGED <<now, Tickets, TicketRateLimits, EmailLog, nextMid, chatMenus, callLog>>
    /\ UNCHANGED syncVars

\* step === "awaiting_ticket_email_2"
TextTicketEmail2(u, raw) ==
    LET text == trim(raw)
        firstEmail == getUserState(State, u).tempData
    IN /\ TextRoute(u, getUserState(State, u).step, text) = "awaiting_ticket_email_2"
       /\ Users' = Upsert(u)
       /\ State' = IF Mismatch(text, firstEmail)
                   THEN setUserStateFields(State, u,
                           [step |-> "awaiting_ticket_email_1", tempData |-> <<>>])
                   ELSE setUserStateFields(State, u,
                           [step |-> "awaiting_ticket_message", tempData |-> firstEmail])
       /\ lastEvt' = Found(u, "awaiting_ticket_email_2", text)
       /\ UNCHANGED <<now, Tickets, TicketRateLimits, EmailLog, nextMid, chatMenus, callLog>>
       /\ UNCHANGED syncVars

\* `TKT_${Date.now()}_${Math.floor(Math.random() * 10000)}`
TicketId(t, rnd) == Txt_tkt \o <<Digit(t), "_", Digit(rnd)>>

\* a ticket row that drops the session's email
NewTicketWithoutEmail(tid, userId, email, text, t) ==
    [key |-> tid, userId |-> userId, email |-> <<>>, message |-> text,
     answer |-> <<>>, createdAt |-> t, answeredAt |-> <<>>, notified |-> Txt_No]

\* [tid, userId, email, text, "", createdAt, "", "No"]
NewTicket(tid, userId, email, text, t) ==
    [key |-> tid, userId |-> userId, email |-> email, message |-> text,
     answer |-> <<>>, createdAt |-> t, answeredAt |-> <<>>, notified |-> Txt_No]

\* step === "awaiting_ticket_message"
TextTicketMessage(u, raw, rnd) ==
    LET text == trim(raw)
        email == getUserState(State, u).tempData
    IN /\ TextRoute(u, getUserState(State, u).step, text) = "awaiting_ticket_message"
       /\ Len(Tickets) < MaxTickets
       /\ Users' = Upsert(u)
       /\ Tickets' = Append(Tickets, NewTicket(TicketId(now, rnd), u, email, text, now))
       /\ State' = deleteMenuIfExists(clearUserState(State, u), u, NoMenu)
       /\ EmailLog' = canSendEmailToUser(EmailLog, u, email, now).rows
       /\ Chat(u, Deleted(clearUserState(State, u), u, NoMenu), FALSE)
       /\ lastEvt' = Found(u, "awaiting_ticket_message", text)
       /\ UNCHANGED <<now, TicketRateLimits, nextMid, callLog>>
       /\ UNCHANGED syncVars

\* text && !step
TextDefault(u, raw, ok) ==
    LET text == trim(raw)
        S1 == deleteMenuIfExists(State, u, NoMenu)
    IN /\ TextRoute(u, getUserState(State, u).step, text) = "default"
       /\ Users' = Upsert(u)
       /\ State' = RecordMenu(S1, u, ok)
       /\ Sent(ok)
       /\ Chat(u, Deleted(State, u, NoMenu), ok)
       /\ lastEvt' = Issued(Found(u, "default", text), SendKind(ok), NoMenu,
                            Deleted(State, u, NoMenu))
       /\ UNCHANGED <<now, Tickets, TicketRateLimits, EmailLog, callLog>>
       /\ UNCHANGED syncVars

----------------------------------------------------------------------------
(* handleUpdate: the menu selections (callbacks) of a user *)

\* a selection can come from any message the bot has sent
SentMids == 1..(nextMid - 1)

\* cd === "support_ticket"
CbSupportTicket(u) ==
    LET r == canSendTicket(TicketRateLimits, u, now)
        userRec == getUserById(Upsert(u), u)
        S1 == deleteMenuIfExists(State, u, NoMenu)
    IN /\ Users' = Upsert(u)
       /\ TicketRateLimits' = r.rows
       /\ State' =
            IF ~r.ok THEN State
            ELSE IF userRec.found /\ userRec.email # <<>> /\ userRec.emailConfirmed = "Yes"
            THEN setUserStateFields(S1, u,
                    [step |-> "awaiting_ticket_message", tempData |-> userRec.email])
            ELSE setUserStateFields(S1, u,
                    [step |-> "awaiting_ticket_email_1", tempData |-> <<>>])
       /\ Chat(u, IF r.ok THEN Deleted(State, u, NoMenu) ELSE {}, FALSE)
       /\ lastEvt' = [Found(u, "support_ticket", <<>>) EXCEPT !.denied = ~r.ok]
       /\ UNCHANGED <<now, Tickets, EmailLog, nextMid, callLog>>
       /\ UNCHANGED syncVars

\* cd === "back_to_main_send"
CbBackToMainSend(u, ok) ==
    LET S1 == deleteMenuIfExists(State, u, NoMenu) IN
    /\ Users' = Upsert(u)
    /\ State' = RecordMenu(S1, u, ok)
    /\ Sent(ok)
    /\ Chat(u, Deleted(State, u, NoMenu), ok)
    /\ lastEvt' = Issued(Found(u, "back_to_main_send", <<>>), SendKind(ok), NoMenu,
                         Deleted(State, u, NoMenu))
    /\ UNCHANGED <<now, Tickets, TicketRateLimits, EmailLog, callLog>>
    /\ UNCHANGED syncVars

\* cd === "back_to_main", selected on the message mid
CbBackToMain(u, mid, ok) ==
    LET del == Deleted(State, u, mid)
        S1 == deleteMenuIfExists(State, u, mid)
    IN /\ <<u, mid>> \in chatMenus
       /\ Users' = Upsert(u)
       /\ State' = RecordMenu(S1, u, ok)
       /\ Sent(ok)
       /\ Chat(u, del, ok)
       /\ lastEvt' = Issued(Found(u, "back_to_main", <<>>), SendKind(ok), mid, del)
       /\ UNCHANGED <<now, Tickets, TicketRateLimits, EmailLog, callLog>>
       /\ UNCHANGED syncVars

\* a selection that opens a sub-menu in place (cd === "edu_initial" and the
\* like): editMessageText on the message mid, which is then recorded
CbNav(u, mid) ==
    /\ <<u, mid>> \in chatMenus
    /\ Users' = Upsert(u)
    /\ State' = setUserStateFields(State, u, [lastMenu |-> mid])
    /\ lastEvt' = Issued(Found(u, "nav", <<>>), "edit", mid, {})
    /\ UNCHANGED <<now, Tickets, TicketRateLimits, EmailLog, nextMid, chatMenus, callLog>>
    /\ UNCHANGED syncVars

\* text === "/admin"
TextAdmin(raw, ok) ==
    LET u == ADMIN_CHAT_ID
        text == trim(raw)
        S1 == deleteMenuIfExists(State, u, NoMenu)
    IN /\ TextRoute(u, getUserState(State, u).step, text) = "admin"
       /\ Users' = Upsert(u)
       /\ State' = RecordMenu(S1, u, ok)
       /\ Sent(ok)
       /\ Chat(u, Deleted(State, u, NoMenu), ok)
       /\ lastEvt' = Issued(Found(u, "admin", text), SendKind(ok), NoMenu,
                            Deleted(State, u, NoMenu))
       /\ UNCHANGED <<now, Tickets, TicketRateLimits, EmailLog, callLog>>
       /\ UNCHANGED syncVars

----------------------------------------------------------------------------
(* The clock *)

\* no requests, no menu in any chat, the admin's handler and the sync scan at rest
\* was (history): the notified cell the handler found
IdleReply == [pc |-> "idle", idx |-> 0, row |-> <<>>, ok |-> FALSE, was |-> <<>>]
IdleSync ==
    [pc |-> "idle", full |-> FALSE, i |-> 1, snap |-> <<>>,
     \* history: a run has finished; nothing was answered or decided since the
     \* last run began; the run is the second of two such runs; what the run
     \* and the run before it delivered and whether it wrote a row
     ran |-> FALSE, quiet |-> FALSE, second |-> FALSE,
     sent |-> 0, wrote |-> FALSE, prevSent |-> 0]
\* no handler is between two of its awaits
NoHandler == [pc |-> "idle"]

\* no broadcast is running.  History of the one that ran last: the targets
\* attempted, the positions in the target list a message id was returned for,
\* the number of log rows whose append threw, what was reported at its end,
\* the number of broadcasts begun so far
IdleBatch ==
    [pc |-> "idle", kind |-> "none", id |-> <<>>, text |-> <<>>, at |-> 0,
     targets |-> <<>>, i |-> 1, sent |-> 0, failed |-> 0,
     attempted |-> <<>>, got |-> {}, lost |-> 0, report |-> "none", n |-> 0]
NoAdmin ==
    /\ Announcements = <<>>
    /\ BroadcastLogs = <<>>
    /\ FilteredBroadcast = <<>>
    /\ batch = IdleBatch
    /\ inflight = NoHandler

NoSync ==
    /\ NoAdmin
    /\ InvestRequests = <<>>
    /\ WithdrawRequests = <<>>
    /\ chatMenus = {}
    /\ reply = IdleReply
    /\ sync = IdleSync
    /\ deliveries = {}

Tick ==
    /\ now < MaxTime
    /\ now' = now + 1
    /\ UNCHANGED <<Users, State, Tickets, TicketRateLimits, EmailLog, nextMid,
                   chatMenus, callLog, lastEvt>>
    /\ UNCHANGED syncVars

----------------------------------------------------------------------------
(* The admin answers a ticket: /reply_<id>, then the answer text.  The       *)
(* handler of the answer is taken apart at its awaits: the first updateRow,  *)
(* the sendMessage to the owner, the second updateRow.                       *)

\* history: an answer was written or a status decided since the last scan began
Dirty(s) == [s EXCEPT !.quiet = FALSE, !.second = FALSE]

\* history: a notification handed to the transport (whether it arrived or
\* not): the sheet, the row, the text it carries (the answer or the status),
\* and the status cell and the notified cell the handler had read
Delivery(kind, row, body, cell) ==
    [kind |-> kind, key |-> row.key, body |-> body, cell |-> cell,
     flag |-> row.notified]

\* text.startsWith("/reply_")
AdminReplyCmd(raw) ==
    LET u == ADMIN_CHAT_ID
        text == trim(raw)
        ticketId == trim(dropPrefix(text, Txt_reply))
    IN /\ reply.pc = "idle"
       /\ TextRoute(u, getUserState(State, u).step, text) = "reply_cmd"
       /\ Users' = Upsert(u)
       /\ State' = setUserStateFields(State, u,
                       [step |-> "awaiting_ticket_reply", tempData |-> ticketId])
       /\ lastEvt' = Found(u, "reply_cmd", text)
       /\ UNCHANGED <<now, Tickets, TicketRateLimits, EmailLog, nextMid, chatMenus, callLog>>
       /\ UNCHANGED syncVars

\* ticketRow[4] = text; ticketRow[6] = now; ticketRow[7] = "No"
AnsweredRow(row, text, t) ==
    [row EXCEPT !.answer = text, !.answeredAt = <<t>>, !.notified = Txt_No]

\* step === "awaiting_ticket_reply": up to the first updateRow
ReplyBegin(raw) ==
    LET u == ADMIN_CHAT_ID
        text == trim(raw)
        ticketId == getUserState(State, u).tempData
        idx == findIndexByFirstCol(Tickets, ticketId)
    IN /\ reply.pc = "idle"
       /\ TextRoute(u, getUserState(State, u).step, text) = "ticket_reply"
       /\ Users' = Upsert(u)
       /\ IF idx = -1
          THEN /\ State' = clearUserState(State, u)
               /\ UNCHANGED <<Tickets, reply, sync>>
          ELSE /\ Tickets' = [Tickets EXCEPT ![idx] = AnsweredRow(@, text, now)]
               /\ reply' = [pc |-> "written", idx |-> idx,
                            row |-> AnsweredRow(Tickets[idx], text, now), ok |-> FALSE,
                            was |-> Tickets[idx].notified]
               /\ sync' = Dirty(sync)
               /\ UNCHANGED State
       /\ lastEvt' = IF idx = -1
                     THEN Said(Found(u, "ticket_reply", text), "ticket_not_found")
                     ELSE Found(u, "ticket_reply", text)
       /\ UNCHANGED <<now, TicketRateLimits, EmailLog, nextMid, chatMenus, callLog,
                      InvestRequests, WithdrawRequests, deliveries>>
       /\ UNCHANGED adminVars

\* await sendMessage(targetUserId, ...): it returns null when the transport
\* fails and does not throw; ticketRow[7] = "Yes" follows in either case
ReplySend(ok) ==
    /\ reply.pc = "written"
    /\ deliveries' = deliveries \cup
            {Delivery("ticket", reply.row, reply.row.answer, <<>>)}
    /\ reply' = [reply EXCEPT !.pc = "sent", !.row.notified = Txt_Yes, !.ok = ok]
    /\ UNCHANGED <<now, Users, State, Tickets, TicketRateLimits, EmailLog, nextMid,
                   chatMenus, callLog, lastEvt, InvestRequests, WithdrawRequests, sync>>
    /\ UNCHANGED adminVars

\* the second updateRow, then clearUserState
ReplyMark ==
    /\ reply.pc = "sent"
    /\ Tickets' = [Tickets EXCEPT ![reply.idx] = reply.row]
    /\ State' = clearUserState(State, ADMIN_CHAT_ID)
    /\ reply' = IdleReply
    /\ UNCHANGED <<now, Users, TicketRateLimits, EmailLog, nextMid, chatMenus,
                   callLog, lastEvt, InvestRequests, WithdrawRequests, sync, deliveries>>
    /\ UNCHANGED adminVars

----------------------------------------------------------------------------
(* GET /admin/sync: each sheet is read once and its rows are gone through    *)
(* in order; other handlers run between two rows.                            *)

\* (row[7] || "").toString().toLowerCase() === 'yes'
IsNotified(flag) == toLowerCase(flag) = Txt_yes

\* answer && notified !== 'yes'
TicketDueAnyAnswer(row) == ~IsNotified(row.notified)
TicketDue(row) == row.answer # <<>> /\ ~IsNotified(row.notified)

\* (row[7] || "Pending").trim()
StatusOfUntrimmed(cell) == IF cell = <<>> THEN Txt_Pending ELSE cell
StatusOf(cell) == trim(IF cell = <<>> THEN Txt_Pending ELSE cell)

\* status !== "Pending" && notified !== "yes"
RequestDue(row) == StatusOf(row.status) # Txt_Pending /\ ~IsNotified(row.notified)

\* [ticketId, targetUserId, email, message, answer, createdAt, now, "Yes"]
SyncedTicketKeepFlag(row, t) == [row EXCEPT !.answeredAt = <<t>>]
SyncedTicket(row, t) == [row EXCEPT !.answeredAt = <<t>>, !.notified = Txt_Yes]

\* [reqId, userId, ..., status, "Yes", createdAt || getNow()]
SyncedRequestKeepFlag(row, t) ==
    [row EXCEPT !.status = StatusOf(row.status),
                !.createdAt = IF @ = <<>> THEN <<t>> ELSE @]
SyncedRequest(row, t) ==
    [row EXCEPT !.status = StatusOf(row.status), !.notified = Txt_Yes,
                !.createdAt = IF @ = <<>> THEN <<t>> ELSE @]

\* the request is accepted: const tickets = await readSheet("Tickets")
SyncStart ==
    /\ sync.pc = "idle"
    /\ sync' = [sync EXCEPT !.pc = "tickets", !.i = 1, !.snap = Tickets,
                            !.second = sync.ran /\ sync.quiet, !.quiet = TRUE,
                            !.sent = 0, !.wrote = FALSE, !.prevSent = sync.sent]
    /\ UNCHANGED <<now, Users, State, Tickets, TicketRateLimits, EmailLog, nextMid,
                   chatMenus, callLog, lastEvt, InvestRequests, WithdrawRequests,
                   reply, deliveries>>
    /\ UNCHANGED adminVars

\* one turn of the loop over the tickets
SyncTicket(ok) ==
    /\ sync.pc = "tickets"
    /\ sync.i <= Len(sync.snap)
    /\ LET row == sync.snap[sync.i] IN
         IF TicketDue(row)
         THEN /\ deliveries' = deliveries \cup
                     {Delivery("ticket", row, row.answer, <<>>)}
              /\ Tickets' = [Tickets EXCEPT ![sync.i] = SyncedTicket(row, now)]
              /\ sync' = [sync EXCEPT !.i = @ + 1, !.sent = @ + 1, !.wrote = TRUE]
         ELSE /\ ~ok
              /\ sync' = [sync EXCEPT !.i = @ + 1]
              /\ UNCHANGED <<Tickets, deliveries>>
    /\ UNCHANGED <<now, Users, State, TicketRateLimits, EmailLog, nextMid, chatMenus,
                   callLog, lastEvt, InvestRequests, WithdrawRequests, reply>>
    /\ UNCHANGED adminVars

\* one turn of the loop over the investment or the withdrawal requests
SyncRequest(ok) ==
    /\ sync.pc \in {"invest", "withdraw"}
    /\ sync.i <= Len(sync.snap)
    /\ LET row == sync.snap[sync.i] IN
         IF RequestDue(row)
         THEN /\ deliveries' = deliveries \cup
                     {Delivery(sync.pc, row, StatusOf(row.status), row.status)}
              /\ IF sync.pc = "invest"
                 THEN /\ InvestRequests' =
                            [InvestRequests EXCEPT ![sync.i] = SyncedRequest(row, now)]
                      /\ UNCHANGED WithdrawRequests
                 ELSE /\ WithdrawRequests' =
                            [WithdrawRequests EXCEPT ![sync.i] = SyncedRequest(row, now)]
                      /\ UNCHANGED InvestRequests
              /\ sync' = [sync EXCEPT !.i = @ + 1, !.sent = @ + 1, !.wrote = TRUE]
         ELSE /\ ~ok
              /\ sync' = [sync EXCEPT !.i = @ + 1]
              /\ UNCHANGED <<InvestRequests, WithdrawRequests, deliveries>>
    /\ UNCHANGED <<now, Users, State, Tickets, TicketRateLimits, EmailLog, nextMid,
                   chatMenus, callLog, lastEvt, reply>>
    /\ UNCHANGED adminVars

\* the end of a loop: the next sheet is read, or the response is sent
\* (version 2.0 scans the tickets only, the legacy scan goes on to the requests)
SyncNext ==
    /\ sync.pc # "idle"
    /\ sync.i > Len(sync.snap)
    /\ sync' =
         IF sync.pc = "tickets" /\ sync.full
         THEN [sync EXCEPT !.pc = "invest", !.i = 1, !.snap = InvestRequests]
         ELSE IF sync.pc = "invest"
         THEN [sync EXCEPT !.pc = "withdraw", !.i = 1, !.snap = WithdrawRequests]
         ELSE [sync EXCEPT !.pc = "idle", !.i = 1, !.snap = <<>>, !.ran = TRUE]
    /\ UNCHANGED <<now, Users, State, Tickets, TicketRateLimits, EmailLog, nextMid,
                   chatMenus, callLog, lastEvt, InvestRequests, WithdrawRequests,
                   reply, deliveries>>
    /\ UNCHANGED adminVars

----------------------------------------------------------------------------
(* The admin edits the sheets by hand: an answer for a ticket that has none, *)
(* the status of a request.                                                  *)

SheetAnswer(i, text) ==
    /\ i \in 1..Len(Tickets)
    /\ Tickets[i].answer = <<>>
    /\ Tickets' = [Tickets EXCEPT ![i].answer = text]
    /\ sync' = Dirty(sync)
    /\ UNCHANGED <<now, Users, State, TicketRateLimits, EmailLog, nextMid, chatMenus,
                   callLog, lastEvt, InvestRequests, WithdrawRequests, reply, deliveries>>
    /\ UNCHANGED adminVars

SheetStatus(kind, i, cell) ==
    /\ IF kind = "invest"
       THEN /\ i \in 1..Len(InvestRequests)
            /\ InvestRequests[i].status # cell
            /\ InvestRequests' = [InvestRequests EXCEPT ![i].status = cell]
            /\ UNCHANGED WithdrawRequests
       ELSE /\ i \in 1..Len(WithdrawRequests)
            /\ WithdrawRequests[i].status # cell
            /\ WithdrawRequests' = [WithdrawRequests EXCEPT ![i].status = cell]
            /\ UNCHANGED InvestRequests
    /\ sync' = Dirty(sync)
    /\ UNCHANGED <<now, Users, State, Tickets, TicketRateLimits, EmailLog, nextMid,
                   chatMenus, callLog, lastEvt, reply, deliveries>>
    /\ UNCHANGED adminVars

----------------------------------------------------------------------------
(* Spec: one user walking through the registration and ticket flows, the  *)
(* events handled one after another                                        *)

Email_a == <<"a", "@", "b", ".", "c">>
Email_A == <<" ", "A", "@", "b", ".", "c", " ">>    \* other case, padded
Email_x == <<"x", "@", "b", ".", "c">>
Txt_noDot == <<"a", "@", "b">>

Texts == {Email_a, Email_A, Email_x, Txt_noDot, Txt_start}
TicketTexts == {Txt_noDot, Email_A}
Rands == {0}
MaxFlowTickets == 1
Actors == {"u1"}

Init ==
    /\ now = 0
    \* another identity has registered Email_x before
    /\ Users = <<[key |-> "u2", email |-> Email_x, emailConfirmed |-> "Yes",
                  joinedAt |-> 0, lastActive |-> 0]>>
    /\ State = <<[key |-> "u2"] @@ IdleState>>
    /\ Tickets = <<>>
    /\ TicketRateLimits = <<>>
    /\ EmailLog = <<>>
    /\ nextMid = 1
    /\ callLog = [k \in RateUsers \X RateActions |-> <<>>]
    /\ lastEvt = NoEvt
    /\ NoSync

Next ==
    \E u \in Actors :
        \/ \E raw \in Texts, ok \in BOOLEAN : TextStart(u, raw, ok)
        \/ \E raw \in Texts : TextEmail1(u, raw)
        \/ \E raw \in Texts, ok \in BOOLEAN : TextEmail2(u, raw, ok)
        \/ \E raw \in Texts : TextTicketEmail1(u, raw)
        \/ \E raw \in Texts : TextTicketEmail2(u, raw)
        \/ /\ Len(Tickets) < MaxFlowTickets
           /\ \E raw \in TicketTexts, rnd \in Rands : TextTicketMessage(u, raw, rnd)
        \/ \E raw \in Texts, ok \in BOOLEAN : TextDefault(u, raw, ok)
        \/ CbSupportTicket(u)
        \/ \E ok \in BOOLEAN : CbBackToMainSend(u, ok)

Spec == Init /\ [][Next]_vars

----------------------------------------------------------------------------
(* SpecQuota: a registered user selecting "support ticket" and submitting *)
(* ticket messages while time passes                                       *)

InitQuota ==
    /\ now = 0
    /\ Users = <<[key |-> "u1", email |-> Email_a, emailConfirmed |-> "Yes",
                  joinedAt |-> 0, lastActive |-> 0]>>
    /\ State = <<>>
    /\ Tickets = <<>>
    /\ TicketRateLimits = <<>>
    /\ EmailLog = <<>>
    /\ nextMid = 1
    /\ callLog = [k \in RateUsers \X RateActions |-> <<>>]
    /\ lastEvt = NoEvt
    /\ NoSync

NextQuota ==
    \/ Tick
    \/ \E u \in Actors :
          \/ CbSupportTicket(u)
          \/ \E raw \in {Txt_noDot}, rnd \in Rands : TextTicketMessage(u, raw, rnd)

SpecQuota == InitQuota /\ [][NextQuota]_vars

----------------------------------------------------------------------------
(* SpecTickets: version 2.0.  The admin answers tickets by command or in the *)
(* sheet, the sync scan runs, a user opens one more ticket.                  *)
(* SpecRequests: the legacy bot, whose scan goes on to the requests and      *)
(* whose admin answers tickets and decides requests in the sheets only.      *)

Ans_A == <<"o", "k">>
Ans_B == <<"n", "o">>
Txt_PendingPadded == <<" ", "P", "e", "n", "d", "i", "n", "g">>
Txt_Space == <<" ">>

OldTicketId == TicketId(0, 1)
AdminTexts == {Txt_reply \o OldTicketId, Ans_B}
SheetAnswers == {Ans_A}
\* "Rejected" and any other decision go the way of "Accepted" and of " "
StatusCells == {<<>>, Txt_Pending, Txt_PendingPadded, Txt_Accepted, Txt_Space}
MaxOpenTickets == 2

\* "Pending", "No", createdAt: the row as the bot appends it
NewRequest(reqId, userId, t) ==
    [key |-> reqId, userId |-> userId, status |-> Txt_Pending,
     notified |-> Txt_No, createdAt |-> <<t>>]

InitSheets ==
    /\ now = 0
    /\ Users = <<[key |-> "u1", email |-> Email_a, emailConfirmed |-> "Yes",
                  joinedAt |-> 0, lastActive |-> 0]>>
    \* the user has selected "support ticket" and is asked for the message
    /\ State = <<[key |-> "u1", step |-> "awaiting_ticket_message", tempData |-> Email_a,
                  lastMenu |-> NoMenu, tempEmail |-> <<>>]>>
    /\ Tickets = <<NewTicket(OldTicketId, "u1", Email_a, Txt_noDot, 0)>>
    /\ TicketRateLimits = <<>>
    /\ EmailLog = <<>>
    /\ InvestRequests = <<NewRequest(<<"I", "N", "V", "_", "1">>, "u1", 0)>>
    /\ WithdrawRequests = <<NewRequest(<<"W", "D", "_", "1">>, "u1", 0)>>
    /\ nextMid = 1
    /\ chatMenus = {}
    /\ reply = IdleReply
    /\ deliveries = {}
    /\ NoAdmin
    /\ callLog = [k \in RateUsers \X RateActions |-> <<>>]
    /\ lastEvt = NoEvt

InitTickets == InitSheets /\ sync = IdleSync

InitRequests == InitSheets /\ sync = [IdleSync EXCEPT !.full = TRUE]

AdminAnswers ==
    \/ \E raw \in AdminTexts : AdminReplyCmd(raw)
    \/ \E raw \in AdminTexts : ReplyBegin(raw)
    \/ \E ok \in BOOLEAN : ReplySend(ok)
    \/ ReplyMark
    \/ \E i \in 1..MaxOpenTickets, text \in SheetAnswers : SheetAnswer(i, text)

NextRequests ==
    \/ \E i \in 1..MaxOpenTickets, text \in SheetAnswers : SheetAnswer(i, text)
    \/ SyncStart
    \/ \E ok \in BOOLEAN : SyncTicket(ok)
    \/ \E ok \in BOOLEAN : SyncRequest(ok)
    \/ SyncNext
    \/ \E kind \in {"invest", "withdraw"}, cell \in StatusCells : SheetStatus(kind, 1, cell)

SpecRequests == InitRequests /\ [][NextRequests]_vars

NextTickets ==
    \/ AdminAnswers
    \/ SyncStart
    \/ \E ok \in BOOLEAN : SyncTicket(ok)
    \/ SyncNext
    \/ /\ Len(Tickets) < MaxOpenTickets
       /\ \E u \in Actors, rnd \in Rands : TextTicketMessage(u, Txt_noDot, rnd)

SpecTickets == InitTickets /\ [][NextTickets]_vars

----------------------------------------------------------------------------
(* SpecMenu: the menu-producing events in one chat.  The chat is the        *)
(* admin's, who is registered and so gets every menu of a user and the      *)
(* admin panel.                                                             *)

MenuTexts == {Txt_start, Txt_admin, Txt_noDot}

InitMenu ==
    /\ now = 0
    /\ Users = <<[key |-> ADMIN_CHAT_ID, email |-> Email_a, emailConfirmed |-> "Yes",
                  joinedAt |-> 0, lastActive |-> 0]>>
    /\ State = <<>>
    /\ Tickets = <<>>
    /\ TicketRateLimits = <<>>
    /\ EmailLog = <<>>
    /\ nextMid = 1
    /\ callLog = [k \in RateUsers \X RateActions |-> <<>>]
    /\ lastEvt = NoEvt
    /\ NoSync

NextMenu ==
    \E u \in {ADMIN_CHAT_ID} :
        \/ \E raw \in MenuTexts, ok \in BOOLEAN : TextStart(u, raw, ok)
        \/ \E raw \in MenuTexts, ok \in BOOLEAN : TextDefault(u, raw, ok)
        \/ \E raw \in MenuTexts, ok \in BOOLEAN : TextAdmin(raw, ok)
        \/ \E mid \in SentMids, ok \in BOOLEAN : CbBackToMain(u, mid, ok)
        \/ \E ok \in BOOLEAN : CbBackToMainSend(u, ok)
        \/ \E mid \in SentMids : CbNav(u, mid)

SpecMenu == InitMenu /\ [][NextMenu]_vars

----------------------------------------------------------------------------
(* SpecRate: the two rate limiters called directly, one call after another *)



TotalCalls ==
    LET keys == RateUsers \X RateActions
        Sum[S \in SUBSET keys] ==
            IF S = {} THEN 0
            ELSE LET k == CHOOSE x \in S : TRUE
                 IN Len(callLog[k]) + Sum[S \ {k}]
    IN Sum[keys]

CallCanSendTicket(u) ==
    /\ TotalCalls < MaxCalls
    /\ LET r == canSendTicket(TicketRateLimits, u, now) IN
         /\ TicketRateLimits' = r.rows
         /\ callLog' = [callLog EXCEPT ![<<u, "ticket">>] =
                            Append(@, [t |-> now, ok |-> r.ok])]
    /\ UNCHANGED <<now, Users, State, Tickets, EmailLog, nextMid, chatMenus, lastEvt>>
    /\ UNCHANGED syncVars

CallCanSendEmailToUser(u) ==
    /\ TotalCalls < MaxCalls
    /\ LET r == canSendEmailToUser(EmailLog, u, <<>>, now) IN
         /\ EmailLog' = r.rows
         /\ callLog' = [callLog EXCEPT ![<<u, "email">>] =
                            Append(@, [t |-> now, ok |-> r.ok])]
    /\ UNCHANGED <<now, Users, State, Tickets, TicketRateLimits, nextMid, chatMenus, lastEvt>>
    /\ UNCHANGED syncVars

InitRate ==
    /\ now = 0
    /\ Users = <<>>
    /\ State = <<>>
    /\ Tickets = <<>>
    \* another identity has used both limiters before
    /\ TicketRateLimits = <<[key |-> "u2", count |-> 1, last |-> 0]>>
    /\ EmailLog = <<[key |-> "u2", email |-> <<>>, count |-> 1, last |-> 0]>>
    /\ nextMid = 1
    /\ callLog = [k \in RateUsers \X RateActions |-> <<>>]
    /\ lastEvt = NoEvt
    /\ NoSync

NextRate ==
    \/ Tick
    \/ \E u \in RateUsers : CallCanSendTicket(u)
    \/ \E u \in RateUsers : CallCanSendEmailToUser(u)

SpecRate == InitRate /\ [][NextRate]_vars

\* C1: for every identity and each rate-limited action, once `Limit` calls
\* have been made in a span of less than 24h that starts with an allowed
\* call, the next call inside that span is denied; and a call is denied
\* whenever `Limit` calls were already allowed in the 24h before it.
C1_LimitPlusOneDenied ==
    \A k \in RateUsers \X RateActions :
        LET log == callLog[k] IN
        /\ \A i \in 1..Len(log) :
              (/\ i + Limit <= Len(log)
               /\ log[i].ok
               /\ log[i + Limit].t - log[i].t < Day)
              => ~log[i + Limit].ok
        /\ \A j \in 1..Len(log) :
              Cardinality({i \in 1..(j - 1) :
                              log[i].ok /\ log[j].t - log[i].t < Day}) >= Limit
              => ~log[j].ok

\* a fourth call inside the span of three allowed calls has been made
C1_Witness ==
    \E k \in RateUsers \X RateActions :
        LET log == callLog[k] IN
        /\ Len(log) > Limit
        /\ log[1].ok /\ log[2].ok /\ log[3].ok
        /\ log[Limit + 1].t > log[1].t
        /\ log[Limit + 1].t - log[1].t < Day
        /\ ~log[Limit + 1].ok


----------------------------------------------------------------------------
(* The email flows (Spec) *)

SameIgnoringCase(a, b) == toLowerCase(a) = toLowerCase(b)

\* the draft of a confirmation step is not touched by any event that
\* leaves the session in that step
DraftKept ==
    \A u \in Actors :
        (/\ getUserState(State, u).step = "awaiting_email_2"
         /\ getUserState(State', u).step = "awaiting_email_2"
         /\ lastEvt'.route # "awaiting_email_1")
        => getUserState(State', u).tempData = getUserState(State, u).tempData

\* the first step took a valid, unused address E1: the session waits for the
\* confirmation with E1 as its draft
StepOneStoresDraft ==
    (/\ lastEvt.route = "awaiting_email_1"
     /\ isValidEmail(lastEvt.text)
     /\ \A i \in 1..Len(Users) :
            Users[i].key # lastEvt.user
            => ~SameIgnoringCase(Users[i].email, lastEvt.text))
    => /\ getUserState(State, lastEvt.user).step = "awaiting_email_2"
       /\ getUserState(State, lastEvt.user).tempData = lastEvt.text

\* the confirmation equals the draft ignoring case: idle, email = draft, confirmed
StepTwoRegisters ==
    (/\ lastEvt.route = "awaiting_email_2"
     /\ SameIgnoringCase(lastEvt.text, lastEvt.tempData))
    => /\ getUserState(State, lastEvt.user).step = ""
       /\ getUserById(Users, lastEvt.user).found
       /\ getUserById(Users, lastEvt.user).email = lastEvt.tempData
       /\ getUserById(Users, lastEvt.user).emailConfirmed = "Yes"

\* C9: from the first registration email step, a valid unused email E1
\* becomes the draft of the confirmation step, the draft stays E1 until the
\* confirmation is handled, and a confirmation equal to E1 ignoring case
\* leaves the session idle with the User's email = E1 and emailConfirmed = Yes.
C9_EmailRoundTrip ==
    /\ [](StepOneStoresDraft /\ StepTwoRegisters)
    /\ [][DraftKept]_vars

\* a confirmation in other case than the draft has registered the draft
C9_Witness ==
    /\ lastEvt.route = "awaiting_email_2"
    /\ lastEvt.step = "awaiting_email_2"
    /\ lastEvt.tempData = Email_a
    /\ lastEvt.text # lastEvt.tempData
    /\ SameIgnoringCase(lastEvt.text, lastEvt.tempData)
    /\ getUserState(State, "u1").step = ""
    /\ getUserById(Users, "u1").email = Email_a
    /\ getUserById(Users, "u1").emailConfirmed = "Yes"

FirstStepOf(route) ==
    IF route = "awaiting_email_2" THEN "awaiting_email_1" ELSE "awaiting_ticket_email_1"

\* C10: in the registration flow and in the ticket-email flow, a confirmation
\* that differs from the draft ignoring case puts the session back at the
\* flow's first email step with tempData empty, leaves the User's email and
\* emailConfirmed as they were and appends no Ticket.
C10_MismatchRestarts ==
    (/\ lastEvt.route \in {"awaiting_email_2", "awaiting_ticket_email_2"}
     /\ ~SameIgnoringCase(lastEvt.text, lastEvt.tempData))
    => /\ getUserState(State, lastEvt.user).step = FirstStepOf(lastEvt.route)
       /\ getUserState(State, lastEvt.user).tempData = <<>>
       /\ getUserById(Users, lastEvt.user).email = lastEvt.email
       /\ getUserById(Users, lastEvt.user).emailConfirmed = lastEvt.emailConfirmed
       /\ Len(Tickets) = lastEvt.nTickets

\* a mismatched confirmation in the ticket-email flow, a draft being stored
C10_Witness ==
    /\ lastEvt.route = "awaiting_ticket_email_2"
    /\ lastEvt.tempData = Email_a
    /\ lastEvt.text = Email_x
    /\ getUserState(State, "u1").step = "awaiting_ticket_email_1"
    /\ getUserState(State, "u1").tempData = <<>>


----------------------------------------------------------------------------
(* The ticket quota (SpecQuota) *)

\* the Ticket rows of userId created in the 24h before t
RecentTickets(userId, t) ==
    {i \in 1..Len(Tickets) :
        /\ Tickets[i].userId = userId
        /\ Tickets[i].createdAt <= t
        /\ t - Tickets[i].createdAt < Day}

\* C2: when a user has submitted 3 tickets within 24h, a further
\* "support_ticket" selection within that span is denied and leaves the session
\* step where it was, and no user ever has a 4th Ticket row within 24h.
C2_FourthSelectionDenied ==
    /\ (/\ lastEvt.route = "support_ticket"
         /\ Cardinality(RecentTickets(lastEvt.user, lastEvt.t)) >= Limit)
        => /\ lastEvt.denied
           /\ getUserState(State, lastEvt.user).step = lastEvt.step
    /\ \A u \in Actors : Cardinality(RecentTickets(u, now)) <= Limit


----------------------------------------------------------------------------
(* The answer of a ticket and its notification (SpecTickets) *)

\* C3: when the admin's answer handler could not deliver the answer to the
\* owner, the row it leaves is not marked notified (and so stays due for the
\* sync scan); it marks the row notified only if the delivery succeeded.
C3_FailedDeliveryStaysUnnotified ==
    [][(reply.pc = "sent" /\ reply'.pc = "idle" /\ ~reply.ok)
       => /\ ~IsNotified(Tickets'[reply.idx].notified)
          /\ TicketDue(Tickets'[reply.idx])]_vars

\* a delivery attempt of the answer the row holds is on record
Attempted(row) ==
    \E d \in deliveries : d.kind = "ticket" /\ d.key = row.key /\ d.body = row.answer

NotifiedAfterAttempt ==
    \A i \in 1..Len(Tickets) :
        IsNotified(Tickets[i].notified)
        => Tickets[i].answer # <<>> /\ Attempted(Tickets[i])

NewDeliveries == deliveries' \ deliveries

\* the answer and answeredAt are in the sheet when the delivery is attempted
AttemptAfterWrite ==
    \A d \in NewDeliveries :
        d.kind = "ticket"
        => \E i \in 1..Len(Tickets) :
              /\ Tickets[i].key = d.key
              /\ Tickets[i].answer = d.body
              /\ Tickets[i].answeredAt # <<>>

\* C4 as stated: notified only with a non-empty answer and an attempt of it,
\* and on both paths the answer and answeredAt are written before the attempt.
C4_AnswerWrittenBeforeAttempt ==
    /\ []NotifiedAfterAttempt
    /\ [][AttemptAfterWrite]_vars

\* the answer handler has written answer, answeredAt and "No" before it sends
ReplyWritesFirst ==
    (reply.pc = "written" /\ reply'.pc = "sent")
    => /\ reply.row.answer # <<>>
       /\ reply.row.answeredAt # <<>>
       /\ ~IsNotified(reply.row.notified)
       /\ NewDeliveries \subseteq {Delivery("ticket", reply.row, reply.row.answer, <<>>)}

\* the scan delivers the answer it has read and writes answeredAt and
\* notified in the same turn, after the attempt
ScanWritesAfter ==
    (sync.pc = "tickets" /\ sync'.i = sync.i + 1 /\ Tickets' # Tickets)
    => /\ Delivery("ticket", sync.snap[sync.i], sync.snap[sync.i].answer, <<>>) \in deliveries'
       /\ Tickets'[sync.i].answer = sync.snap[sync.i].answer
       /\ Tickets'[sync.i].answeredAt # <<>>
       /\ IsNotified(Tickets'[sync.i].notified)

\* C4 (amended): in every state a ticket is notified only if its answer is
\* non-empty and a delivery of that answer to the owner has been attempted;
\* no delivery is attempted without an answer; the answer handler writes
\* answer and answeredAt before its attempt and notified after it; the scan
\* delivers the answer it read and writes answeredAt and notified after the
\* attempt.
C4_NotifiedOnlyAfterAttempt ==
    /\ []NotifiedAfterAttempt
    /\ [][/\ \A d \in NewDeliveries : d.body # <<>>
          /\ ReplyWritesFirst
          /\ ScanWritesAfter]_vars

\* the scan has notified an answer typed into the sheet: answeredAt was
\* empty when the delivery was attempted
C4_Witness ==
    /\ IsNotified(Tickets[1].notified)
    /\ Tickets[1].answer = Ans_A
    /\ Attempted(Tickets[1])
    /\ reply.pc = "idle"

\* C5 as stated: a notified ticket stays notified in every step.
C5_NotifiedNeverReset ==
    [][\A i \in 1..Len(Tickets) :
          IsNotified(Tickets[i].notified) => IsNotified(Tickets'[i].notified)]_vars

\* C5 (amended): a notified ticket becomes not notified only in the first
\* write of the admin's answer handler, which stores a new answer for that
\* ticket; the sync scan, the second write of the handler, the sheet edits
\* and the events of users never take the mark back.
C5_ResetOnlyByNewAnswer ==
    [][\A i \in 1..Len(Tickets) :
          (IsNotified(Tickets[i].notified) /\ ~IsNotified(Tickets'[i].notified))
          => /\ reply.pc = "idle"
             /\ reply'.pc = "written"
             /\ reply'.idx = i
             /\ lastEvt'.route = "ticket_reply"
             /\ Tickets'[i].answer = lastEvt'.text]_vars

\* the admin has answered a notified ticket again: the mark is taken back
C5_Witness ==
    /\ reply.pc = "written"
    /\ IsNotified(reply.was)
    /\ ~IsNotified(Tickets[reply.idx].notified)

----------------------------------------------------------------------------
(* The sync scan and the requests (SpecRequests) *)

\* C6: a scan that follows a finished scan, no ticket having been answered
\* and no request status changed since that scan began, delivers nothing and
\* writes no Ticket and no Request row.
C6_SecondScanIdle ==
    sync.second => (sync.sent = 0 /\ ~sync.wrote)

\* the second of two such scans has finished, the first had delivered
C6_Witness ==
    /\ sync.second
    /\ sync.pc = "idle"
    /\ sync.ran
    /\ sync.prevSent >= 2

\* the status cell is blank or reads Pending
PendingCell(cell) == cell = <<>> \/ trim(cell) = Txt_Pending

RequestKinds == {"invest", "withdraw"}

DeliveredOnlyDecided ==
    \A d \in deliveries :
        d.kind \in RequestKinds
        => ~PendingCell(d.cell) /\ toLowerCase(d.flag) # Txt_yes

\* a turn of the scan over a request sheet changes at most the row it is at,
\* and that one only if it read it decided and not notified
ScanLeavesOthers ==
    (sync.pc \in RequestKinds /\ sync'.i = sync.i + 1)
    => /\ \A j \in 1..Len(InvestRequests) :
            (\/ sync.pc # "invest" \/ j # sync.i
             \/ PendingCell(sync.snap[j].status)
             \/ toLowerCase(sync.snap[j].notified) = Txt_yes)
            => InvestRequests'[j] = InvestRequests[j]
       /\ \A j \in 1..Len(WithdrawRequests) :
            (\/ sync.pc # "withdraw" \/ j # sync.i
             \/ PendingCell(sync.snap[j].status)
             \/ toLowerCase(sync.snap[j].notified) = Txt_yes)
            => WithdrawRequests'[j] = WithdrawRequests[j]
       /\ (PendingCell(sync.snap[sync.i].status) => deliveries' = deliveries)

RequestFlagKept ==
    /\ \A j \in 1..Len(InvestRequests) :
          toLowerCase(InvestRequests[j].notified) = Txt_yes
          => toLowerCase(InvestRequests'[j].notified) = Txt_yes
    /\ \A j \in 1..Len(WithdrawRequests) :
          toLowerCase(WithdrawRequests[j].notified) = Txt_yes
          => toLowerCase(WithdrawRequests'[j].notified) = Txt_yes

----------------------------------------------------------------------------
(* The menus (SpecMenu) *)

TrackedNow(userId) == getUserState(State, userId).lastMenu

\* C8 as stated: a menu is issued by editing the menu that was tracked, or
\* by sending a message after the tracked one was deleted.
C8_MenuEditedOrSuperseded ==
    /\ lastEvt.issued = "edit"
       => (lastEvt.lastMenu = NoMenu \/ lastEvt.cb = lastEvt.lastMenu)
    /\ lastEvt.issued = "send"
       => (lastEvt.lastMenu = NoMenu
           \/ <<lastEvt.user, lastEvt.lastMenu>> \in lastEvt.deleted)

\* C8 (amended): one message id at most is tracked, and it is the menu
\* issued last.  A menu issued in place edits the message the selection came
\* from, and that message becomes the tracked one, whatever was tracked
\* before.  A menu issued as a new message is sent after the tracked message
\* was deleted, except on back_to_main selected on the tracked message
\* itself: that message is left in the chat and is tracked no longer.
C8_MenuTracked ==
    /\ lastEvt.issued = "edit"
       => /\ TrackedNow(lastEvt.user) = lastEvt.cb
          /\ lastEvt.deleted = {}
    /\ lastEvt.issued = "send"
       => /\ TrackedNow(lastEvt.user) = nextMid - 1
          /\ <<lastEvt.user, nextMid - 1>> \in chatMenus
          /\ \/ lastEvt.lastMenu = NoMenu
             \/ <<lastEvt.user, lastEvt.lastMenu>> \in lastEvt.deleted
             \/ /\ lastEvt.route = "back_to_main"
                /\ lastEvt.cb = lastEvt.lastMenu
                /\ <<lastEvt.user, lastEvt.lastMenu>> \in chatMenus

\* back_to_main was selected on the tracked menu: the new menu is sent and
\* the old message is still in the chat
C8_Witness ==
    /\ lastEvt.route = "back_to_main"
    /\ lastEvt.issued = "send"
    /\ lastEvt.lastMenu # NoMenu
    /\ lastEvt.cb = lastEvt.lastMenu
    /\ lastEvt.deleted = {}
    /\ <<lastEvt.user, lastEvt.lastMenu>> \in chatMenus
    /\ TrackedNow(lastEvt.user) # lastEvt.lastMenu

----------------------------------------------------------------------------
(* The first email steps (Spec) *)

\* no other identity's User row holds the email, ignoring case
UnusedByOthers(userId, text) ==
    \A i \in 1..Len(Users) :
        Users[i].key # userId => ~SameIgnoringCase(Users[i].email, text)

\* C11: the first email step of the registration flow and of the ticket-email
\* flow leaves the session in its confirmation step only if the text is a
\* valid email that no other identity's User row holds (ignoring case);
\* otherwise the session stays in the first step.
C11_AdvanceOnlyValidUnused ==
    (/\ lastEvt.route \in {"awaiting_email_1", "awaiting_ticket_email_1"}
     /\ ~(isValidEmail(lastEvt.text) /\ UnusedByOthers(lastEvt.user, lastEvt.text)))
    => getUserState(State, lastEvt.user).step = lastEvt.route

\* the email and emailConfirmed cells of every User row are what they were
\* (a row the event's upsert appends holds no email and "No")
EmailCellsKept ==
    \A k \in {Users[i].key : i \in 1..Len(Users)} \cup {Users'[i].key : i \in 1..Len(Users')} :
        /\ getUserById(Users', k).email = getUserById(Users, k).email
        /\ getUserById(Users', k).emailConfirmed = getUserById(Users, k).emailConfirmed

\* C12: a text that is not a valid email, received at a first email step
\* (registration or ticket-email), is answered by the invalid-email prompt;
\* the Session row (step, tempData, lastMenu) is unchanged, and no Ticket,
\* Request, rate-limit row or User email / emailConfirmed cell is created or
\* changed.
C12_InvalidEmailChangesNothing ==
    [][(/\ lastEvt' # lastEvt
        /\ lastEvt'.route \in {"awaiting_email_1", "awaiting_ticket_email_1"}
        /\ ~isValidEmail(lastEvt'.text))
       => /\ lastEvt'.said = "invalid_email"
          /\ State' = State
          /\ Tickets' = Tickets
          /\ InvestRequests' = InvestRequests
          /\ WithdrawRequests' = WithdrawRequests
          /\ TicketRateLimits' = TicketRateLimits
          /\ EmailLog' = EmailLog
          /\ EmailCellsKept]_vars

\* "a@b" was sent at the first step of the ticket-email flow: the session is
\* still in that step
C12_Witness ==
    /\ lastEvt.route = "awaiting_ticket_email_1"
    /\ lastEvt.text = Txt_noDot
    /\ lastEvt.said = "invalid_email"
    /\ lastEvt.step = "awaiting_ticket_email_1"
    /\ getUserState(State, lastEvt.user).step = "awaiting_ticket_email_1"

----------------------------------------------------------------------------
(* A store write that throws (SpecFault).  appendRow and updateRow have no   *)
(* try/catch: the exception leaves the step handler where it is and is       *)
(* caught at the end of handleUpdate, which reports it to the admin.  The    *)
(* writes made before it stay.                                               *)

\* history: the k-th store write of the handler threw; the catch of
\* handleUpdate handed its report to sendMessage(ADMIN_CHAT_ID, ...)
Threw(evt, k) == [evt EXCEPT !.threw = k, !.alerted = TRUE]

\* step === "awaiting_ticket_message"; the writes are, in order: the upsert of
\* the User row, the append of the Ticket, clearUserState, the EmailLog row
FaultTicketMessage(u, raw, rnd, k) ==
    LET text == trim(raw)
        email == getUserState(State, u).tempData
    IN /\ TextRoute(u, getUserState(State, u).step, text) = "awaiting_ticket_message"
       /\ Len(Tickets) < MaxTickets
       /\ k \in 1..4
       /\ k = 4 => canSendEmailToUser(EmailLog, u, email, now).ok
       /\ Users' = IF k > 1 THEN Upsert(u) ELSE Users
       /\ Tickets' = IF k > 2
                     THEN Append(Tickets, NewTicket(TicketId(now, rnd), u, email, text, now))
                     ELSE Tickets
       /\ State' = IF k > 3 THEN clearUserState(State, u) ELSE State
       /\ lastEvt' = Threw(Found(u, "awaiting_ticket_message", text), k)
       /\ UNCHANGED <<now, TicketRateLimits, EmailLog, nextMid, chatMenus, callLog>>
       /\ UNCHANGED syncVars

\* step === "awaiting_email_2", the confirmation matching; the writes are, in
\* order: the upsert, the User row with the email, the EmailLog row, lastMenu
\* of the menu sent, clearUserState
FaultEmail2(u, raw, ok, k) ==
    LET text == trim(raw)
        firstEmail == getUserState(State, u).tempData
        S1 == deleteMenuIfExists(State, u, NoMenu)
        sent == ok /\ k > 3
    IN /\ TextRoute(u, getUserState(State, u).step, text) = "awaiting_email_2"
       /\ ~Mismatch(text, firstEmail)
       /\ k \in 1..5
       /\ k = 3 => canSendEmailToUser(EmailLog, u, firstEmail, now).ok
       /\ k = 4 => ok
       /\ k < 4 => ~ok
       /\ Users' = IF k = 1 THEN Users
                   ELSE IF k = 2 THEN Upsert(u)
                   ELSE registerOrUpdateUser(Upsert(u), u, firstEmail, "Yes", now)
       /\ EmailLog' = IF k > 3 THEN canSendEmailToUser(EmailLog, u, firstEmail, now).rows
                      ELSE EmailLog
       /\ State' = IF k < 4 THEN State
                   ELSE IF k = 4 THEN S1
                   ELSE RecordMenu(S1, u, ok)
       /\ Sent(sent)
       /\ Chat(u, IF k > 3 THEN Deleted(State, u, NoMenu) ELSE {}, sent)
       /\ lastEvt' = Threw(Issued(Found(u, "awaiting_email_2", text), SendKind(sent),
                                  NoMenu, IF k > 3 THEN Deleted(State, u, NoMenu) ELSE {}), k)
       /\ UNCHANGED <<now, Tickets, TicketRateLimits, callLog>>
       /\ UNCHANGED syncVars

FaultTexts == {Email_a, Txt_noDot, Txt_start}

NextFault ==
    \E u \in Actors :
        \/ \E raw \in FaultTexts, ok \in BOOLEAN : TextStart(u, raw, ok)
        \/ \E raw \in FaultTexts : TextEmail1(u, raw)
        \/ \E raw \in FaultTexts, ok \in BOOLEAN : TextEmail2(u, raw, ok)
        \/ \E raw \in FaultTexts, ok \in BOOLEAN, k \in 1..5 : FaultEmail2(u, raw, ok, k)
        \/ CbSupportTicket(u)
        \/ /\ Len(Tickets) < MaxFlowTickets
           /\ \E raw \in TicketTexts, rnd \in Rands : TextTicketMessage(u, raw, rnd)
        \/ /\ Len(Tickets) < MaxFlowTickets
           /\ \E raw \in TicketTexts, rnd \in Rands, k \in 1..4 :
                  FaultTicketMessage(u, raw, rnd, k)
        \/ \E ok \in BOOLEAN : CbBackToMainSend(u, ok)

SpecFault == Init /\ [][NextFault]_vars

\* C13: when a store write of a step handler threw, the report to the admin
\* was attempted and the user's Session row (step, tempData, lastMenu) is
\* what it was before the event.
C13_ThrowCommitsNoSession ==
    lastEvt.threw > 0
    => /\ lastEvt.alerted
       /\ getUserState(State, lastEvt.user).step = lastEvt.step
       /\ getUserState(State, lastEvt.user).tempData = lastEvt.tempData
       /\ getUserState(State, lastEvt.user).lastMenu = lastEvt.lastMenu

----------------------------------------------------------------------------
(* The cancel button of the ticket prompts (Spec) *)

TicketSteps ==
    {"awaiting_ticket_email_1", "awaiting_ticket_email_2", "awaiting_ticket_message"}

\* the cancel button of a ticket prompt was selected while the flow was open
CancelledTicketFlow ==
    lastEvt.route = "back_to_main_send" /\ lastEvt.step \in TicketSteps

\* C14: after the cancel button of a ticket prompt (back_to_main_send) was
\* selected the session step is empty, and the event that follows it creates
\* no Ticket.
C14_CancelClearsStep ==
    /\ [](CancelledTicketFlow => getUserState(State, lastEvt.user).step = "")
    /\ [][CancelledTicketFlow => Tickets' = Tickets]_vars

----------------------------------------------------------------------------
(* The admin's text commands and the order of the routes (SpecRoute) *)

MaxAnnouncements == 1   \* rows of the Announcements sheet

Txt_ann == <<"A", "N", "N", "_">>

\* String.prototype.split for a one-character separator
RECURSIVE split(_, _)
split(text, sep) ==
    IF \A i \in 1..Len(text) : text[i] # sep THEN <<text>>
    ELSE LET i == CHOOSE j \in 1..Len(text) :
                     text[j] = sep /\ \A k \in 1..(j - 1) : text[k] # sep
         IN <<SubSeq(text, 1, i - 1)>> \o split(SubSeq(text, i + 1, Len(text)), sep)

\* text.startsWith("/announce "): "/announce title | text"
TextAnnounce(raw) ==
    LET u == ADMIN_CHAT_ID
        text == trim(raw)
        parts == split(dropPrefix(text, Txt_announce), "|")
        title == trim(parts[1])
        msg == IF Len(parts) > 1 THEN trim(parts[2]) ELSE <<>>
    IN /\ TextRoute(u, getUserState(State, u).step, text) = "announce"
       /\ Len(Announcements) < MaxAnnouncements
       /\ Users' = Upsert(u)
       /\ Announcements' =
            IF title = <<>> \/ msg = <<>> THEN Announcements
            ELSE Append(Announcements,
                        [key |-> Txt_ann \o <<Digit(now)>>, title |-> title,
                         message |-> msg, createdAt |-> now, active |-> Txt_Yes])
       /\ lastEvt' = Found(u, "announce", text)
       /\ UNCHANGED <<now, State, Tickets, TicketRateLimits, EmailLog, nextMid, chatMenus,
                      callLog, inflight, InvestRequests, WithdrawRequests, reply, sync, deliveries,
                      BroadcastLogs, FilteredBroadcast, batch>>

Txt_announcement == Txt_announce \o <<"t", " ", "|", " ", "m">>
Txt_replyTo == Txt_reply \o <<"1">>
RouteTexts == {Txt_admin, Txt_announcement, Txt_replyTo, Txt_start, Email_a}

\* the admin uses the bot as a user does and sends the admin's commands
NextRoute ==
    \E u \in {ADMIN_CHAT_ID} :
        \/ \E raw \in RouteTexts, ok \in BOOLEAN : TextStart(u, raw, ok)
        \/ \E raw \in RouteTexts : TextEmail1(u, raw)
        \/ \E raw \in RouteTexts, ok \in BOOLEAN : TextEmail2(u, raw, ok)
        \/ CbSupportTicket(u)
        \/ /\ Len(Tickets) < MaxFlowTickets
           /\ \E raw \in RouteTexts, rnd \in Rands : TextTicketMessage(u, raw, rnd)
        \/ \E raw \in RouteTexts, ok \in BOOLEAN : TextDefault(u, raw, ok)
        \/ \E raw \in RouteTexts, ok \in BOOLEAN : TextAdmin(raw, ok)
        \/ \E raw \in RouteTexts : TextAnnounce(raw)
        \/ \E raw \in RouteTexts : AdminReplyCmd(raw)
        \/ \E raw \in RouteTexts : ReplyBegin(raw)

SpecRoute == Init /\ [][NextRoute]_vars

\* the text is one of the admin's commands: /admin, /announce ..., /reply_<id>
AdminCommand(text) ==
    \/ text = Txt_admin
    \/ startsWith(text, Txt_announce)
    \/ startsWith(text, Txt_reply)

\* C15: a text command of the admin (/admin, /announce, /reply_<id>) sent by
\* the admin identity is handled by the admin route of that command, whatever
\* step the admin's own session is in.
C15_AdminCommandFirst ==
    (IsAdmin(lastEvt.user) /\ AdminCommand(lastEvt.text))
    => lastEvt.route = (IF lastEvt.text = Txt_admin THEN "admin"
                        ELSE IF startsWith(lastEvt.text, Txt_announce) THEN "announce"
                        ELSE "reply_cmd")

----------------------------------------------------------------------------
(* The broadcasts of the admin (SpecBatch).  handleBroadcast and             *)
(* handleFilteredBroadcast are taken apart at their recipients; the sleep    *)
(* after each recipient lets the clock advance.                              *)

MaxBatches == 1         \* broadcasts begun

Txt_bc == <<"B", "C", "_">>
Txt_fbc == <<"F", "B", "C", "_">>

\* String(chatId) of the identities of the model
ChatIdText(key) ==
    CASE key = "u1" -> <<"u", "1">>
      [] key = "u2" -> <<"u", "2">>
      [] OTHER -> <<"a", "d", "m">>

\* text.replace(/,/g, "\n")
CommasToNewlines(text) == [i \in 1..Len(text) |-> IF text[i] = "," THEN "\n" ELSE text[i]]

\* .map(s => s.trim()).filter(s => s.length > 0)
RECURSIVE trimmedNonEmpty(_)
trimmedNonEmpty(parts) ==
    IF parts = <<>> THEN <<>>
    ELSE (IF trim(Head(parts)) = <<>> THEN <<>> ELSE <<trim(Head(parts))>>)
         \o trimmedNonEmpty(Tail(parts))

\* .filter(s => s.trim())
RECURSIVE nonBlank(_)
nonBlank(parts) ==
    IF parts = <<>> THEN <<>>
    ELSE (IF trim(Head(parts)) = <<>> THEN <<>> ELSE <<Head(parts)>>)
         \o nonBlank(Tail(parts))

\* Array.prototype.join
RECURSIVE join(_, _)
join(parts, sep) ==
    IF parts = <<>> THEN <<>>
    ELSE IF Len(parts) = 1 THEN Head(parts)
    ELSE Head(parts) \o <<sep>> \o join(Tail(parts), sep)

\* cd === "admin_broadcast"
CbAdminBroadcast ==
    LET u == ADMIN_CHAT_ID IN
    /\ batch.pc = "idle"
    /\ Users' = Upsert(u)
    /\ State' = setUserStateFields(State, u, [step |-> "awaiting_broadcast_message"])
    /\ lastEvt' = Found(u, "admin_broadcast", <<>>)
    /\ UNCHANGED <<now, Tickets, TicketRateLimits, EmailLog, nextMid, chatMenus, callLog>>
    /\ UNCHANGED syncVars

\* cd === "admin_filtered_broadcast"
CbAdminFilteredBroadcast ==
    LET u == ADMIN_CHAT_ID IN
    /\ batch.pc = "idle"
    /\ Users' = Upsert(u)
    /\ State' = setUserStateFields(State, u, [step |-> "awaiting_filtered_ids"])
    /\ lastEvt' = Found(u, "admin_filtered_broadcast", <<>>)
    /\ UNCHANGED <<now, Tickets, TicketRateLimits, EmailLog, nextMid, chatMenus, callLog>>
    /\ UNCHANGED syncVars

\* cd === "admin_close", selected on the message mid
CbAdminClose(mid) ==
    LET u == ADMIN_CHAT_ID IN
    /\ batch.pc = "idle"
    /\ Users' = Upsert(u)
    /\ State' = clearUserState(State, u)
    /\ chatMenus' = chatMenus \ {<<u, mid>>}
    /\ lastEvt' = Found(u, "admin_close", <<>>)
    /\ UNCHANGED <<now, Tickets, TicketRateLimits, EmailLog, nextMid, callLog>>
    /\ UNCHANGED syncVars

\* step === "awaiting_filtered_ids"
TextFilteredIds(raw) ==
    LET u == ADMIN_CHAT_ID
        text == trim(raw)
        rawIds == trimmedNonEmpty(split(CommasToNewlines(text), "\n"))
    IN /\ batch.pc = "idle"
       /\ TextRoute(u, getUserState(State, u).step, text) = "filtered_ids"
       /\ Users' = Upsert(u)
       /\ State' = IF rawIds = <<>> THEN clearUserState(State, u)
                   ELSE setUserStateFields(State, u,
                            [step |-> "awaiting_filtered_message",
                             tempData |-> join(rawIds, ",")])
       /\ lastEvt' = Found(u, "filtered_ids", text)
       /\ UNCHANGED <<now, Tickets, TicketRateLimits, EmailLog, nextMid, chatMenus, callLog>>
       /\ UNCHANGED syncVars

\* a broadcast begins: the targets are fixed, the counters are zero
StartedBatch(kind, prefix, targets, text) ==
    [IdleBatch EXCEPT !.pc = "loop", !.kind = kind, !.id = prefix \o <<Digit(now)>>,
                      !.text = text, !.at = now, !.targets = targets,
                      !.n = batch.n + 1]

\* step === "awaiting_broadcast_message": handleBroadcast up to its loop
TextBroadcast(raw) ==
    LET u == ADMIN_CHAT_ID
        text == trim(raw)
        users == Upsert(u)
    IN /\ batch.pc = "idle"
       /\ TextRoute(u, getUserState(State, u).step, text) = "broadcast"
       /\ batch.n < MaxBatches
       /\ now + Len(users) <= MaxTime
       /\ Users' = users
       /\ batch' = StartedBatch("all", Txt_bc,
                                [i \in 1..Len(users) |-> ChatIdText(users[i].key)], text)
       /\ lastEvt' = Found(u, "broadcast", text)
       /\ UNCHANGED <<now, State, Tickets, TicketRateLimits, EmailLog, nextMid, chatMenus,
                      callLog, inflight, InvestRequests, WithdrawRequests, reply, sync, deliveries,
                      Announcements, BroadcastLogs, FilteredBroadcast>>

\* step === "awaiting_filtered_message": handleFilteredBroadcast up to its loop
TextFilteredMessage(raw) ==
    LET u == ADMIN_CHAT_ID
        text == trim(raw)
        targetIds == nonBlank(split(getUserState(State, u).tempData, ","))
    IN /\ batch.pc = "idle"
       /\ TextRoute(u, getUserState(State, u).step, text) = "filtered_message"
       /\ batch.n < MaxBatches
       /\ now + Len(targetIds) <= MaxTime
       /\ Users' = Upsert(u)
       /\ batch' = StartedBatch("filtered", Txt_fbc, targetIds, text)
       /\ lastEvt' = Found(u, "filtered_message", text)
       /\ UNCHANGED <<now, State, Tickets, TicketRateLimits, EmailLog, nextMid, chatMenus,
                      callLog, inflight, InvestRequests, WithdrawRequests, reply, sync, deliveries,
                      Announcements, BroadcastLogs, FilteredBroadcast>>

\* [broadcastId, targetId, mid, now, "No"]
LogRow(b, targetId, mid) ==
    [key |-> b.id, target |-> targetId, mid |-> mid, at |-> b.at, seen |-> Txt_No]

\* the loop variable after a turn: neither outcome leaves the loop
NextTargetAbortOnFailure(b, outcome) ==
    IF outcome = "failed" THEN Len(b.targets) + 1 ELSE b.i + 1
NextTarget(b, outcome) == b.i + 1

\* one turn of the loop.  outcome: "failed" (sendMessage returned null),
\* "sent" (a message id was returned and the log row appended), "lost" (a
\* message id was returned and the append of the log row threw)
BatchDeliver(outcome) ==
    /\ batch.pc = "loop"
    /\ batch.i <= Len(batch.targets)
    /\ LET id == trim(batch.targets[batch.i]) IN
         IF id = <<>>
         THEN /\ outcome = "failed"
              /\ batch' = [batch EXCEPT !.i = @ + 1]
              /\ UNCHANGED <<now, nextMid, BroadcastLogs>>
         ELSE /\ now < MaxTime
              /\ now' = now + 1
              /\ outcome # "failed" => nextMid <= MaxMid
              /\ nextMid' = IF outcome = "failed" THEN nextMid ELSE nextMid + 1
              /\ BroadcastLogs' = IF outcome = "sent"
                                  THEN Append(BroadcastLogs, LogRow(batch, id, nextMid))
                                  ELSE BroadcastLogs
              /\ batch' =
                   [batch EXCEPT
                      !.i = NextTarget(batch, outcome),
                      !.attempted = Append(@, batch.targets[batch.i]),
                      !.sent = IF outcome = "failed" THEN @ ELSE @ + 1,
                      !.failed = IF outcome = "sent" THEN @ ELSE @ + 1,
                      !.got = IF outcome = "failed" THEN @
                              ELSE @ \cup {<<batch.i, nextMid>>},
                      !.lost = IF outcome = "lost" THEN @ + 1 ELSE @]
    /\ UNCHANGED <<Users, State, Tickets, TicketRateLimits, EmailLog, chatMenus, callLog,
                   lastEvt, inflight, InvestRequests, WithdrawRequests, reply, sync, deliveries,
                   Announcements, FilteredBroadcast>>

\* after the loop: the summary row of a filtered broadcast (threw: its append
\* threw and the catch reports an error instead), the report to the admin,
\* and clearUserState in handleUpdate
BatchEnd(threw) ==
    /\ batch.pc = "loop"
    /\ batch.i > Len(batch.targets)
    /\ threw => batch.kind = "filtered"
    /\ FilteredBroadcast' =
         IF batch.kind = "filtered" /\ ~threw
         THEN Append(FilteredBroadcast,
                     [key |-> batch.id, targets |-> join(batch.targets, ","),
                      text |-> batch.text, at |-> batch.at, sent |-> batch.sent])
         ELSE FilteredBroadcast
    /\ batch' = [batch EXCEPT !.pc = "idle",
                              !.report = IF threw THEN "error" ELSE "counts"]
    /\ State' = clearUserState(State, ADMIN_CHAT_ID)
    /\ UNCHANGED <<now, Users, Tickets, TicketRateLimits, EmailLog, nextMid, chatMenus,
                   callLog, lastEvt, inflight, InvestRequests, WithdrawRequests, reply, sync,
                   deliveries, Announcements, BroadcastLogs>>

Ids_two == <<"u", "1", ",", " ", "u", "2">>
Ids_none == <<",">>
BatchTexts == {Ids_two, Ids_none, Ans_A}
Outcomes == {"failed", "sent", "lost"}

InitBatch ==
    /\ now = 0
    /\ Users = <<[key |-> ADMIN_CHAT_ID, email |-> Email_a, emailConfirmed |-> "Yes",
                  joinedAt |-> 0, lastActive |-> 0],
                 [key |-> "u1", email |-> Email_x, emailConfirmed |-> "Yes",
                  joinedAt |-> 0, lastActive |-> 0]>>
    /\ State = <<>>
    /\ Tickets = <<>>
    /\ TicketRateLimits = <<>>
    /\ EmailLog = <<>>
    /\ nextMid = 1
    /\ callLog = [k \in RateUsers \X RateActions |-> <<>>]
    /\ lastEvt = NoEvt
    /\ NoSync

BatchStep ==
    \/ \E outcome \in Outcomes : BatchDeliver(outcome)
    \/ \E threw \in BOOLEAN : BatchEnd(threw)

NextBatch ==
    \/ CbAdminBroadcast
    \/ CbAdminFilteredBroadcast
    \/ \E mid \in 1..MaxMid : CbAdminClose(mid)
    \/ \E raw \in BatchTexts : TextFilteredIds(raw)
    \/ \E raw \in BatchTexts : TextBroadcast(raw)
    \/ \E raw \in BatchTexts : TextFilteredMessage(raw)
    \/ BatchStep

SpecBatch == InitBatch /\ [][NextBatch]_vars

\* the loop goes over a finite list and every call of the transport and of
\* the store returns or throws
SpecBatchFair == SpecBatch /\ WF_vars(BatchStep)

\* a broadcast has ended
Ended == batch.pc = "idle" /\ batch.kind # "none"

\* the positions of the target list no message id was returned for
NoMid == {i \in 1..Len(batch.targets) : \A d \in batch.got : d[1] # i}

\* while the loop runs the targets before the current one have been attempted
LoopGoesOn ==
    batch.pc = "loop" => batch.attempted = SubSeq(batch.targets, 1, batch.i - 1)

\* at the end every target has been attempted, every target without a
\* message id is counted as failed (as is every log row whose append threw),
\* and the counts are reported; the error report takes their place only if
\* the summary row of a filtered broadcast could not be written
EndReportsCounts ==
    Ended => /\ batch.attempted = batch.targets
             /\ batch.failed = Cardinality(NoMid) + batch.lost
             /\ batch.sent = Len(batch.targets) - Cardinality(NoMid)
             /\ batch.report \in {"counts", "error"}
             /\ batch.report = "error"
                => /\ batch.kind = "filtered"
                   /\ \A j \in 1..Len(FilteredBroadcast) :
                          FilteredBroadcast[j].key # batch.id

BatchRows == {j \in 1..Len(BroadcastLogs) : BroadcastLogs[j].key = batch.id}

\* C17: at the end of a broadcast the BroadcastLogs rows carrying its id are
\* as many as the reported sent count, and each names a target a message id
\* was returned for, with that id.
C17_LogMatchesSentCount ==
    Ended => /\ Cardinality(BatchRows) = batch.sent
             /\ \A j \in BatchRows :
                   \E d \in batch.got :
                       /\ trim(batch.targets[d[1]]) = BroadcastLogs[j].target
                       /\ d[2] = BroadcastLogs[j].mid

----------------------------------------------------------------------------
(* SpecStale: the menu events of SpecMenu in a chat whose messages the      *)
(* user can remove, so that the recorded lastMenu may name a message that   *)
(* is no longer there and the deleteMessage call for it fails.              *)

\* the user removes a menu message from the chat; the bot is not told
UserDeletes(u, mid) ==
    /\ <<u, mid>> \in chatMenus
    /\ chatMenus' = chatMenus \ {<<u, mid>>}
    /\ UNCHANGED <<now, Users, State, Tickets, TicketRateLimits, EmailLog, nextMid,
                   callLog, lastEvt>>
    /\ UNCHANGED syncVars

NextStale ==
    \/ NextMenu
    \/ \E mid \in SentMids : UserDeletes(ADMIN_CHAT_ID, mid)

SpecStale == InitMenu /\ [][NextStale]_vars

\* the event asks for the deletion of a message that is not in the chat
StaleDelete ==
    /\ lastEvt' # lastEvt
    /\ lastEvt'.deleted # {}
    /\ lastEvt'.deleted \cap chatMenus = {}

\* C18: when the deletion of the recorded lastMenu message fails because the
\* message is gone, nothing is thrown, the recorded lastMenu is cleared, and
\* the handler goes on to send its new message: a delivered menu is in the
\* chat and is the recorded one, an undelivered one leaves lastMenu empty.
C18_StaleDeleteSwallowed ==
    [][StaleDelete =>
        /\ lastEvt'.threw = 0
        /\ lastEvt'.issued \in {"send", "none"}
        /\ getUserState(State', lastEvt'.user).lastMenu
             = (IF lastEvt'.issued = "send" THEN nextMid ELSE NoMenu)
        /\ lastEvt'.issued = "send"
           => /\ nextMid' = nextMid + 1
              /\ <<lastEvt'.user, nextMid>> \in chatMenus']_vars

\* an event has asked for the deletion of a message that was gone, and its
\* new menu is in the chat
C18_Witness ==
    /\ lastEvt.stale
    /\ lastEvt.issued = "send"
    /\ chatMenus = {<<lastEvt.user, getUserState(State, lastEvt.user).lastMenu>>}

----------------------------------------------------------------------------
(* SpecExcept: deleteMenuIfExists as a function of the State sheet and the  *)
(* excepted id, over the events that open a flow (step and tempData are    *)
(* set) and those that call it with and without an excepted id.             *)

ExceptTexts == {Txt_start, Email_a, Txt_noDot}

NextExcept ==
    \E u \in Actors :
        \/ \E raw \in ExceptTexts, ok \in BOOLEAN : TextStart(u, raw, ok)
        \/ \E raw \in ExceptTexts, ok \in BOOLEAN : TextDefault(u, raw, ok)
        \/ CbSupportTicket(u)
        \/ \E raw \in ExceptTexts : TextTicketEmail1(u, raw)
        \/ \E ok \in BOOLEAN : CbBackToMainSend(u, ok)
        \/ \E mid \in SentMids, ok \in BOOLEAN : CbBackToMain(u, mid, ok)
        \/ \E mid \in SentMids : CbNav(u, mid)

SpecExcept == Init /\ [][NextExcept]_vars

\* the rows of the State sheet other than userId's, and the step and tempData
\* of userId's, are the same in S1 as in S0
OnlyLastMenuChanged(S0, S1, userId) ==
    /\ Len(S1) = Len(S0)
    /\ \A i \in 1..Len(S0) :
          IF S0[i].key = userId
          THEN /\ S1[i].key = userId
               /\ S1[i].step = S0[i].step
               /\ S1[i].tempData = S0[i].tempData
          ELSE S1[i] = S0[i]

\* C19: deleteMenuIfExists called with the recorded lastMenu as the excepted
\* id asks for no deletion and leaves the State sheet as it is; called with
\* another excepted id while a lastMenu is recorded it asks for the deletion
\* of that message and empties lastMenu, and step and tempData stay.
C19_ExceptIdSpared ==
    /\ \A u \in Actors, e \in 0..MaxMid :
          LET last == getUserState(State, u).lastMenu
              S1 == deleteMenuIfExists(State, u, e)
          IN /\ (last # NoMenu /\ last = e)
                => /\ Deleted(State, u, e) = {}
                   /\ S1 = State
             /\ (last # NoMenu /\ last # e)
                => /\ Deleted(State, u, e) = {<<u, last>>}
                   /\ getUserState(S1, u).lastMenu = NoMenu
                   /\ OnlyLastMenuChanged(State, S1, u)
    /\ lastEvt.route \in {"back_to_main", "back_to_main_send"} /\ lastEvt.lastMenu # NoMenu
       => /\ lastEvt.deleted = (IF lastEvt.cb = lastEvt.lastMenu THEN {}
                                ELSE {<<lastEvt.user, lastEvt.lastMenu>>})
          /\ getUserState(State, lastEvt.user).step = lastEvt.step
          /\ getUserState(State, lastEvt.user).tempData = lastEvt.tempData
          /\ lastEvt.issued = "none"
             => getUserState(State, lastEvt.user).lastMenu
                  = (IF lastEvt.cb = lastEvt.lastMenu THEN lastEvt.cb ELSE NoMenu)

\* back_to_main was selected on the recorded menu while a flow was open, the
\* new menu was not delivered: the recorded menu is kept and is in the chat
C19_Witness ==
    /\ lastEvt.route = "back_to_main"
    /\ lastEvt.cb = lastEvt.lastMenu
    /\ lastEvt.cb # NoMenu
    /\ lastEvt.issued = "none"
    /\ lastEvt.step # ""
    /\ lastEvt.tempData # <<>>
    /\ getUserState(State, lastEvt.user).lastMenu = lastEvt.cb
    /\ <<lastEvt.user, lastEvt.cb>> \in chatMenus

----------------------------------------------------------------------------
(* The counter rows of the rate limiters (SpecRate) *)

\* the effect of one call on the counter row of userId in a limiter's sheet:
\* rows before, rows after, the call as recorded in callLog
CounterStep(before, after, userId, call) ==
    LET idx == findIndexByFirstCol(before, userId) IN
    /\ ~call.ok => after = before
    /\ (call.ok /\ idx > -1 /\ InWindow(before[idx].last, call.t))
       => /\ after[idx].count = before[idx].count + 1
          /\ after[idx].last = call.t
          /\ Len(after) = Len(before)
          /\ \A i \in 1..Len(before) : i # idx => after[i] = before[i]

CountsWithinLimit ==
    /\ \A i \in 1..Len(TicketRateLimits) : TicketRateLimits[i].count <= Limit
    /\ \A i \in 1..Len(EmailLog) : EmailLog[i].count <= Limit

\* C20: a denied call of a limiter leaves the sheet of the limiter, and so
\* the count and the time of the identity's row, as they were; an allowed
\* call inside the window adds exactly 1 to the count; no count is ever
\* above the limit.
C20_DeniedLeavesRow ==
    /\ []CountsWithinLimit
    /\ [][\A u \in RateUsers :
            /\ callLog'[<<u, "ticket">>] # callLog[<<u, "ticket">>]
               => CounterStep(TicketRateLimits, TicketRateLimits', u,
                              callLog'[<<u, "ticket">>][Len(callLog'[<<u, "ticket">>])])
            /\ callLog'[<<u, "email">>] # callLog[<<u, "email">>]
               => CounterStep(EmailLog, EmailLog', u,
                              callLog'[<<u, "email">>][Len(callLog'[<<u, "email">>])])]_vars

\* the last call of the ticket limiter was denied at a later time than the
\* allowed call before it: the row is at the limit and carries the time of
\* that allowed call
C20_Witness ==
    \E u \in RateUsers :
        LET log == callLog[<<u, "ticket">>]
            n == Len(log)
            row == TicketRateLimits[findIndexByFirstCol(TicketRateLimits, u)]
        IN /\ n > Limit
           /\ ~log[n].ok
           /\ log[n - 1].ok
           /\ log[n - 1].t < log[n].t
           /\ row.count = Limit
           /\ row.last = log[n - 1].t

----------------------------------------------------------------------------
(* The window of the rate limiters (SpecRate) *)

\* the effect of one call on an existing counter row, by the time since the
\* row was stamped: a reset after more than a day, the count test otherwise
WindowStep(before, after, userId, call) ==
    LET idx == findIndexByFirstCol(before, userId) IN
    idx > -1 =>
        LET gap == call.t - before[idx].last IN
        /\ gap > Day
           => /\ call.ok
              /\ after[idx].count = 1
              /\ after[idx].last = call.t
        /\ gap <= Day
           => /\ call.ok <=> before[idx].count < Limit
              /\ call.ok => after[idx].count = before[idx].count + 1

\* C21: a call resets the counter (count 1, stamped with the time of the
\* call) and is allowed exactly when more than 24h have passed since the row
\* was stamped; at 24h or less the call is inside the window and is allowed
\* only while the count is below the limit.
C21_ResetOnlyAfterDay ==
    [][\A u \in RateUsers :
          /\ callLog'[<<u, "ticket">>] # callLog[<<u, "ticket">>]
             => WindowStep(TicketRateLimits, TicketRateLimits', u,
                           callLog'[<<u, "ticket">>][Len(callLog'[<<u, "ticket">>])])
          /\ callLog'[<<u, "email">>] # callLog[<<u, "email">>]
             => WindowStep(EmailLog, EmailLog', u,
                           callLog'[<<u, "email">>][Len(callLog'[<<u, "email">>])])]_vars

\* the allowed calls among the calls i..j of a log
AllowedIn(log, i, j) == Cardinality({m \in i..j : log[m].ok})

\* an allowed call inside the window leaves the time the row carries
AnchorKept(before, after, userId, call) ==
    LET idx == findIndexByFirstCol(before, userId) IN
    (idx > -1 /\ call.ok /\ InWindow(before[idx].last, call.t))
    => after[idx].last = before[idx].last

----------------------------------------------------------------------------
(* SpecOrder: the handlers of awaiting_email_1, support_ticket and          *)
(* admin_reply_ticket_ taken apart at the await of their outbound call:     *)
(* first the writes the code makes before it, then the call.                *)

\* the handler has made its writes and is at its outbound call
AtSend(evt, kind, msg) == [pc |-> kind, found |-> evt, said |-> msg]

\* step === "awaiting_email_1", up to its sendMessage
Email1Write(u, raw) ==
    LET text == trim(raw)
        taken == emailTaken(Upsert(u), u, text)
    IN /\ inflight.pc = "idle"
       /\ TextRoute(u, getUserState(State, u).step, text) = "awaiting_email_1"
       /\ Users' = Upsert(u)
       /\ State' = IF ~EmailRejected(text) /\ ~taken
                   THEN setUserStateFields(State, u,
                           [step |-> "awaiting_email_2", tempData |-> text])
                   ELSE State
       /\ inflight' = AtSend(Found(u, "awaiting_email_1", text), "send",
                             IF EmailRejected(text) THEN "invalid_email"
                             ELSE IF taken THEN "duplicate_email"
                             ELSE "confirm_email")
       /\ UNCHANGED <<now, Tickets, TicketRateLimits, EmailLog, nextMid, chatMenus,
                      callLog, lastEvt, InvestRequests, WithdrawRequests, reply, sync,
                      deliveries, Announcements, BroadcastLogs, FilteredBroadcast, batch>>

\* cd === "support_ticket", up to its answerCallbackQuery or sendMessage
SupportTicketWrite(u) ==
    LET r == canSendTicket(TicketRateLimits, u, now)
        userRec == getUserById(Upsert(u), u)
        S1 == deleteMenuIfExists(State, u, NoMenu)
    IN /\ inflight.pc = "idle"
       /\ Users' = Upsert(u)
       /\ TicketRateLimits' = r.rows
       /\ State' =
            IF ~r.ok THEN State
            ELSE IF userRec.found /\ userRec.email # <<>> /\ userRec.emailConfirmed = "Yes"
            THEN setUserStateFields(S1, u,
                    [step |-> "awaiting_ticket_message", tempData |-> userRec.email])
            ELSE setUserStateFields(S1, u,
                    [step |-> "awaiting_ticket_email_1", tempData |-> <<>>])
       /\ Chat(u, IF r.ok THEN Deleted(State, u, NoMenu) ELSE {}, FALSE)
       /\ inflight' = AtSend([Found(u, "support_ticket", <<>>) EXCEPT !.denied = ~r.ok],
                             "send", IF r.ok THEN "ticket_prompt" ELSE "limit_reached")
       /\ UNCHANGED <<now, Tickets, EmailLog, nextMid, callLog, lastEvt,
                      InvestRequests, WithdrawRequests, reply, sync,
                      deliveries, Announcements, BroadcastLogs, FilteredBroadcast, batch>>

\* cd.startsWith("admin_reply_ticket_"), up to its editMessageText
AdminReplyTicketWrite(ticketId) ==
    LET u == ADMIN_CHAT_ID IN
    /\ inflight.pc = "idle"
    /\ Users' = Upsert(u)
    /\ State' = setUserStateFields(State, u,
                    [step |-> "awaiting_ticket_reply", tempData |-> ticketId])
    /\ inflight' = AtSend(Found(u, "admin_reply_ticket", ticketId), "edit", "reply_prompt")
    /\ UNCHANGED <<now, Tickets, TicketRateLimits, EmailLog, nextMid, chatMenus,
                   callLog, lastEvt, InvestRequests, WithdrawRequests, reply, sync,
                   deliveries, Announcements, BroadcastLogs, FilteredBroadcast, batch>>

\* cd === "admin_cancel_reply": clearUserState, then editMessageText
AdminCancelReply ==
    LET u == ADMIN_CHAT_ID IN
    /\ inflight.pc = "idle"
    /\ getUserState(State, u).step = "awaiting_ticket_reply"
    /\ Users' = Upsert(u)
    /\ State' = clearUserState(State, u)
    /\ lastEvt' = Found(u, "admin_cancel_reply", <<>>)
    /\ UNCHANGED <<now, Tickets, TicketRateLimits, EmailLog, nextMid, chatMenus, callLog>>
    /\ UNCHANGED syncVars

\* the outbound call of the handler is made; the handler returns
HandlerSend ==
    /\ inflight.pc \in {"send", "edit"}
    /\ inflight' = NoHandler
    /\ lastEvt' = Said(inflight.found, inflight.said)
    /\ UNCHANGED <<now, Users, State, Tickets, TicketRateLimits, EmailLog, nextMid,
                   chatMenus, callLog, InvestRequests, WithdrawRequests, reply, sync,
                   deliveries, Announcements, BroadcastLogs, FilteredBroadcast, batch>>

OrderActors == {"u1", ADMIN_CHAT_ID}
OrderTexts == {Email_a, Email_x, Txt_noDot}
OrderTicketIds == {<<"1">>}

NextOrder ==
    \/ \E u \in OrderActors, ok \in BOOLEAN :
          inflight.pc = "idle" /\ TextStart(u, Txt_start, ok)
    \/ \E u \in OrderActors, raw \in OrderTexts : Email1Write(u, raw)
    \/ \E u \in OrderActors : SupportTicketWrite(u)
    \/ \E ticketId \in OrderTicketIds : AdminReplyTicketWrite(ticketId)
    \/ AdminCancelReply
    \/ HandlerSend

SpecOrder == Init /\ [][NextOrder]_vars

\* the actions whose counter is consumed by the handler
RateLimitedRoutes == {"support_ticket"}

\* C23: while a handler has not yet attempted its outbound send or edit, the
\* Session of its user is the one it found, unless the action is a
\* rate-limited one; a rate-limited action that is allowed has its counter
\* row stamped and counted before the send is attempted.
C23_SessionAfterSends ==
    inflight.pc \in {"send", "edit"} =>
        LET u == inflight.found.user
            idx == findIndexByFirstCol(TicketRateLimits, u)
        IN /\ inflight.found.route \notin RateLimitedRoutes
              => /\ getUserState(State, u).step = inflight.found.step
                 /\ getUserState(State, u).tempData = inflight.found.tempData
           /\ (inflight.found.route \in RateLimitedRoutes /\ ~inflight.found.denied)
              => /\ idx > -1
                 /\ TicketRateLimits[idx].last = inflight.found.t
                 /\ TicketRateLimits[idx].count >= 1

----------------------------------------------------------------------------
(* The writes of the admin's answer handler and of the sync scan against    *)
(* the rows they read (SpecTickets)                                         *)

\* the scan is about to write the row it read at the start of its run
SyncWrites ==
    /\ sync.pc = "tickets"
    /\ sync.i <= Len(sync.snap)
    /\ TicketDue(sync.snap[sync.i])
    /\ sync'.i = sync.i + 1

\* the answer handler is about to write its row for the second time
ReplyWritesAgain == reply.pc = "sent" /\ reply'.pc = "idle"

\* C24: a Ticket row written by the sync scan or by the admin's answer
\* handler replaces the row that the writer read or wrote last: no change
\* made to the row in between by the other path or by a sheet edit is
\* overwritten.
C24_WritesFromFreshRow ==
    [][/\ SyncWrites => Tickets[sync.i] = sync.snap[sync.i]
       /\ ReplyWritesAgain
          => Tickets[reply.idx] = [reply.row EXCEPT !.notified = Txt_No]]_vars

----------------------------------------------------------------------------
(* SpecNotFound: the admin's answers, with reply commands that name a       *)
(* ticket that is not in the sheet.                                         *)

MissingTicketId == <<"9">>
NotFoundTexts == {Txt_reply \o MissingTicketId, Txt_reply \o OldTicketId, Ans_B}

NextNotFound ==
    \/ \E raw \in NotFoundTexts : AdminReplyCmd(raw)
    \/ \E raw \in NotFoundTexts : ReplyBegin(raw)
    \/ \E ok \in BOOLEAN : ReplySend(ok)
    \/ ReplyMark
    \/ /\ Len(Tickets) < MaxOpenTickets
       /\ \E u \in Actors, rnd \in Rands : TextTicketMessage(u, Txt_noDot, rnd)

SpecNotFound == InitTickets /\ [][NextNotFound]_vars

\* the admin's reply text arrives and names no row of the Tickets sheet
ReplyToMissing ==
    /\ lastEvt' # lastEvt
    /\ lastEvt'.route = "ticket_reply"
    /\ findIndexByFirstCol(Tickets, lastEvt'.tempData) = -1

\* C25: the admin's reply text for a ticket id that is not in the sheet is
\* answered with "ticket not found" and clears the admin's session; no
\* Ticket row changes and nothing is handed to the transport for an owner.
C25_MissingTicketReported ==
    [][ReplyToMissing =>
        /\ lastEvt'.said = "ticket_not_found"
        /\ getUserState(State', ADMIN_CHAT_ID).step = ""
        /\ getUserState(State', ADMIN_CHAT_ID).tempData = <<>>
        /\ Tickets' = Tickets
        /\ deliveries' = deliveries
        /\ reply' = reply]_vars

\* the reply for the missing ticket has been handled while the sheet holds
\* tickets, none of them answered
C25_Witness ==
    /\ lastEvt.route = "ticket_reply"
    /\ lastEvt.tempData = MissingTicketId
    /\ lastEvt.said = "ticket_not_found"
    /\ getUserState(State, ADMIN_CHAT_ID).step = ""
    /\ Len(Tickets) = 2
    /\ \A i \in 1..Len(Tickets) : Tickets[i].answer = <<>>
    /\ deliveries = {}

----------------------------------------------------------------------------
(* SpecRows: setUserStateFields and registerOrUpdateUser taken apart at the *)
(* await between readSheet and appendRow / updateRow.  Requests are handled *)
(* concurrently (app.post awaits handleUpdate per request), and readSheet   *)
(* returns [] when the read fails.                                          *)

MaxHandlers == 2        \* calls between their read and their write
MaxRows == 3            \* rows of the State and of the Users sheet

\* the calls that have read their sheet and have not yet written
Reads == IF inflight.pc = "rows" THEN inflight.reads ELSE <<>>

Without(seq, k) == SubSeq(seq, 1, k - 1) \o SubSeq(seq, k + 1, Len(seq))

Pending(reads) == IF reads = <<>> THEN NoHandler ELSE [pc |-> "rows", reads |-> reads]

\* readSheet(sheetName): the rows, or [] when the read failed
readSheet(rows, failed) == IF failed THEN <<>> ELSE rows

\* what a call writes, from the rows it read: the index it found for userId
\* (-1: appendRow) and the row
WriteOf(sheet, data, after, userId) ==
    LET idx == findIndexByFirstCol(data, userId) IN
    [sheet |-> sheet, user |-> userId, idx |-> idx,
     row |-> after[IF idx = -1 THEN Len(after) ELSE idx]]

\* setUserStateFields(userId, fields) up to its write
StateRead(u, fields, failed) ==
    LET data == readSheet(State, failed) IN
    /\ Len(Reads) < MaxHandlers
    /\ inflight' = Pending(Append(Reads,
                      WriteOf("State", data, setUserStateFields(data, u, fields), u)))
    /\ UNCHANGED <<now, Users, State, Tickets, TicketRateLimits, EmailLog, nextMid,
                   chatMenus, callLog, lastEvt, InvestRequests, WithdrawRequests, reply,
                   sync, deliveries, Announcements, BroadcastLogs, FilteredBroadcast, batch>>

\* registerOrUpdateUser(userId, ...) up to its write
UsersRead(u, failed) ==
    LET data == readSheet(Users, failed) IN
    /\ Len(Reads) < MaxHandlers
    /\ inflight' = Pending(Append(Reads,
                      WriteOf("Users", data,
                              registerOrUpdateUser(data, u, <<>>, "", now), u)))
    /\ UNCHANGED <<now, Users, State, Tickets, TicketRateLimits, EmailLog, nextMid,
                   chatMenus, callLog, lastEvt, InvestRequests, WithdrawRequests, reply,
                   sync, deliveries, Announcements, BroadcastLogs, FilteredBroadcast, batch>>

\* appendRow(sheetName, row) when no row was found, updateRow(sheetName,
\* idx + 1, row) otherwise
Written(rows, w) ==
    IF w.idx = -1 THEN Append(rows, w.row) ELSE [rows EXCEPT ![w.idx] = w.row]

RowWrite(k) ==
    /\ k \in 1..Len(Reads)
    /\ LET w == Reads[k] IN
         /\ w.idx = -1 => Len(IF w.sheet = "State" THEN State ELSE Users) < MaxRows
         /\ IF w.sheet = "State"
            THEN State' = Written(State, w) /\ UNCHANGED Users
            ELSE Users' = Written(Users, w) /\ UNCHANGED State
    /\ inflight' = Pending(Without(Reads, k))
    /\ UNCHANGED <<now, Tickets, TicketRateLimits, EmailLog, nextMid,
                   chatMenus, callLog, lastEvt, InvestRequests, WithdrawRequests, reply,
                   sync, deliveries, Announcements, BroadcastLogs, FilteredBroadcast, batch>>

RowUsers == {"u1", "u2"}
RowFields == {[step |-> "awaiting_email_1"]}

InitRows ==
    /\ now = 0
    /\ Users = <<>>
    /\ State = <<>>
    /\ Tickets = <<>>
    /\ TicketRateLimits = <<>>
    /\ EmailLog = <<>>
    /\ nextMid = 1
    /\ callLog = [k \in RateUsers \X RateActions |-> <<>>]
    /\ lastEvt = NoEvt
    /\ NoSync

NextRows ==
    \/ \E u \in RowUsers, fields \in RowFields, failed \in BOOLEAN :
          StateRead(u, fields, failed)
    \/ \E u \in RowUsers, failed \in BOOLEAN : UsersRead(u, failed)
    \/ \E k \in 1..MaxHandlers : RowWrite(k)

SpecRows == InitRows /\ [][NextRows]_vars

OneRowPerKey(rows) ==
    \A i, j \in 1..Len(rows) : rows[i].key = rows[j].key => i = j

\* C26: the State sheet holds at most one row per identity and so does the
\* Users sheet, whatever the interleaving of the calls and whether or not a
\* read of the sheet fails.
C26_OneRowPerIdentity == OneRowPerKey(State) /\ OneRowPerKey(Users)

----------------------------------------------------------------------------
(* SpecIds: two users submit tickets; events handled within the same        *)
(* millisecond see the same Date.now(), and Math.random() may return the    *)
(* same value twice.                                                        *)

MaxIdTickets == 2       \* rows of the Tickets sheet in SpecIds
MaxIdTime == 1          \* the clock of SpecIds stops here
IdUsers == {"u1", "u2"}
IdRands == {0, 1}       \* Math.floor(Math.random() * 10000)

InitIds ==
    /\ now = 0
    /\ Users = <<[key |-> "u1", email |-> Email_a, emailConfirmed |-> "Yes",
                  joinedAt |-> 0, lastActive |-> 0],
                 [key |-> "u2", email |-> Email_x, emailConfirmed |-> "Yes",
                  joinedAt |-> 0, lastActive |-> 0]>>
    /\ State = <<>>
    /\ Tickets = <<>>
    /\ TicketRateLimits = <<>>
    /\ EmailLog = <<>>
    /\ nextMid = 1
    /\ callLog = [k \in RateUsers \X RateActions |-> <<>>]
    /\ lastEvt = NoEvt
    /\ NoSync

NextIds ==
    \/ now < MaxIdTime /\ Tick
    \/ \E u \in IdUsers : CbSupportTicket(u)
    \/ /\ Len(Tickets) < MaxIdTickets
       /\ \E u \in IdUsers, rnd \in IdRands : TextTicketMessage(u, Txt_noDot, rnd)

SpecIds == InitIds /\ [][NextIds]_vars

\* C27: no two rows of the Tickets sheet have the same id.
C27_TicketIdsUnique ==
    \A i, j \in 1..Len(Tickets) : Tickets[i].key = Tickets[j].key => i = j

----------------------------------------------------------------------------
(* SpecTransport: telegramCall.  A failed axios.post is caught and reported *)
(* with sendMessage(ADMIN_CHAT_ID, ...), which is itself a telegramCall.    *)

MaxDepth == 4           \* nested telegramCall frames told apart; deeper ones count as MaxDepth

Methods == {"sendMessage", "editMessageText", "deleteMessage", "answerCallbackQuery"}
Chats == {"u1", "u2", ADMIN_CHAT_ID}

\* the chat transport answers, or fails / times out
TransportUp == IF "up" \in DOMAIN inflight THEN inflight.up ELSE TRUE

\* a handler calls telegramCall(method, payload)
TelegramCall(method, chat) ==
    /\ inflight.pc \in {"idle", "returned"}
    /\ inflight' = [pc |-> "post", method |-> method, chat |-> chat, depth |-> 1,
                    notes |-> 0, up |-> TransportUp, result |-> "none"]
    /\ UNCHANGED <<now, Users, State, Tickets, TicketRateLimits, EmailLog, nextMid,
                   chatMenus, callLog, lastEvt, InvestRequests, WithdrawRequests, reply,
                   sync, deliveries, Announcements, BroadcastLogs, FilteredBroadcast, batch>>

\* the notifications attempted after one more failed post
NotesAfterFailure(notes) == notes + 1

\* the frames after a failed post of the frame at depth: the catch calls
\* sendMessage(ADMIN_CHAT_ID, ...), a new frame
DepthAfterFailure(depth) == IF depth < MaxDepth THEN depth + 1 ELSE MaxDepth

\* await axios.post(...) of the innermost frame returns or throws.  When it
\* returns in the outermost frame the call returns res.data; when it returns
\* in a nested frame, that frame and every catch above it return, and the
\* call returns null.  When it throws, the catch notifies the admin.
Post ==
    /\ inflight.pc = "post"
    /\ inflight' =
         IF inflight.up
         THEN [inflight EXCEPT !.pc = "returned",
                               !.result = IF inflight.depth = 1 THEN "data" ELSE "null"]
         ELSE [inflight EXCEPT !.depth = DepthAfterFailure(@),
                               !.notes = IF inflight.depth < MaxDepth
                                         THEN NotesAfterFailure(@) ELSE @]
    /\ UNCHANGED <<now, Users, State, Tickets, TicketRateLimits, EmailLog, nextMid,
                   chatMenus, callLog, lastEvt, InvestRequests, WithdrawRequests, reply,
                   sync, deliveries, Announcements, BroadcastLogs, FilteredBroadcast, batch>>

\* the transport goes down or comes back
TransportFlips ==
    /\ inflight.pc # "idle"
    /\ inflight' = [inflight EXCEPT !.up = ~@]
    /\ UNCHANGED <<now, Users, State, Tickets, TicketRateLimits, EmailLog, nextMid,
                   chatMenus, callLog, lastEvt, InvestRequests, WithdrawRequests, reply,
                   sync, deliveries, Announcements, BroadcastLogs, FilteredBroadcast, batch>>

NextTransport ==
    \/ \E method \in Methods, chat \in Chats : TelegramCall(method, chat)
    \/ Post
    \/ TransportFlips

SpecTransport == InitRows /\ [][NextTransport]_vars

\* every axios.post returns or throws within its timeout of 15 s
SpecTransportFair == SpecTransport /\ WF_vars(Post)

\* a call is made and has not returned
Calling == inflight.pc = "post"

\* C28: a telegramCall whose post fails notifies the admin at most once and
\* does not try again; every telegramCall returns, also while the transport
\* keeps failing.
C28_FailedCallReturns ==
    /\ [](Calling => inflight.notes <= 1 /\ inflight.depth <= 2)
    /\ (Calling ~> inflight.pc = "returned")

----------------------------------------------------------------------------
(* SpecFlow: the ticket submission flow of handleUpdate, walked by a user *)
(* who has no email yet or who has registered and confirmed one before    *)

FlowActors == {"u1"}
FlowTexts == {Email_a, Email_A, Txt_noDot}

\* the Users sheet when the user has completed the registration before
RegisteredUsers ==
    <<[key |-> "u2", email |-> Email_x, emailConfirmed |-> "Yes",
       joinedAt |-> 0, lastActive |-> 0],
      [key |-> "u1", email |-> Email_a, emailConfirmed |-> "Yes",
       joinedAt |-> 0, lastActive |-> 0]>>

InitFlow ==
    /\ now = 0
    /\ Users \in {RegisteredUsers, SubSeq(RegisteredUsers, 1, 1)}
    /\ State = <<[key |-> "u2"] @@ IdleState>>
    /\ Tickets = <<>>
    /\ TicketRateLimits = <<>>
    /\ EmailLog = <<>>
    /\ nextMid = 1
    /\ callLog = [k \in RateUsers \X RateActions |-> <<>>]
    /\ lastEvt = NoEvt
    /\ NoSync

NextFlow ==
    \E u \in FlowActors :
        \/ CbSupportTicket(u)
        \/ \E raw \in FlowTexts : TextTicketEmail1(u, raw)
        \/ \E raw \in FlowTexts : TextTicketEmail2(u, raw)
        \/ /\ Len(Tickets) < MaxFlowTickets
           /\ \E raw \in TicketTexts, rnd \in Rands : TextTicketMessage(u, raw, rnd)
        \/ \E ok \in BOOLEAN : CbBackToMainSend(u, ok)

SpecFlow == InitFlow /\ [][NextFlow]_vars

StepOf(rows, userId) == getUserState(rows, userId).step

\* the user of the event already has a confirmed email: the email steps
\* are skipped
HasConfirmedEmail(evt) == evt.email # <<>> /\ evt.emailConfirmed = "Yes"

\* the steps of the flow are entered in order: the email step from the
\* support_ticket selection of a user without confirmed email (or again
\* after a mismatch), the confirm step from the email step, the message
\* step from the confirm step or from the selection of a user with a
\* confirmed email (the cancel button can leave the flow at any step)
TicketStepsInOrder(userId) ==
    LET s == StepOf(State, userId)
        t == StepOf(State', userId)
    IN s # t =>
        /\ t = "awaiting_ticket_email_1" =>
              \/ lastEvt'.route = "support_ticket" /\ ~HasConfirmedEmail(lastEvt')
              \/ s = "awaiting_ticket_email_2"
        /\ t = "awaiting_ticket_email_2" => s = "awaiting_ticket_email_1"
        /\ t = "awaiting_ticket_message" =>
              \/ lastEvt'.route = "support_ticket" /\ HasConfirmedEmail(lastEvt')
              \/ s = "awaiting_ticket_email_2"

\* the Tickets sheet changes by one appended row, written by the text
\* event of a user at step awaiting_ticket_message
TicketAppended ==
    LET u == lastEvt'.user
        row == Tickets'[Len(Tickets')]
    IN /\ lastEvt'.route = "awaiting_ticket_message"
       /\ StepOf(State, u) = "awaiting_ticket_message"
       /\ Tickets' = Append(Tickets, row)
       /\ row.userId = u
       /\ row.email = getUserState(State, u).tempData
       /\ row.message = lastEvt'.text
       /\ row.answer = <<>>
       /\ row.notified = Txt_No
       /\ StepOf(State', u) = ""
       /\ getUserState(State', u).tempData = <<>>

\* C29: the ticket flow runs idle, email step (skipped for a user with a
\* confirmed email), confirm step, message step, idle; a Ticket row is
\* appended only by a text event received at step awaiting_ticket_message,
\* with the session's tempData as email, an empty answer and notified No,
\* and the session is idle afterwards.
C29_TicketFromMessageStep ==
    [][/\ \A u \in FlowActors : TicketStepsInOrder(u)
       /\ (Tickets' # Tickets => TicketAppended)]_vars

\* a ticket was just submitted with the email the session carried
C29_Witness ==
    /\ lastEvt.route = "awaiting_ticket_message"
    /\ lastEvt.step = "awaiting_ticket_message"
    /\ Len(Tickets) = lastEvt.nTickets + 1
    /\ lastEvt.tempData # <<>>
    /\ Tickets[Len(Tickets)].email = lastEvt.tempData
    /\ Tickets[Len(Tickets)].notified = Txt_No
    /\ StepOf(State, lastEvt.user) = ""

----------------------------------------------------------------------------
(* SpecDraft: the investment and withdrawal conversations of the earlier  *)
(* handleUpdate kept in the same file: the answers are joined with "||"   *)
(* in tempData and split again at the last step                           *)

MaxDrafts == 1          \* rows appended to the request sheets

Txt_inv == <<"I", "N", "V", "_">>
Txt_wdr == <<"W", "D", "R", "_">>
Delim == <<"|", "|">>

\* `INV_${Date.now()}_${Math.floor(Math.random()*10000)}`
RequestId(prefix, t, rnd) == prefix \o <<Digit(t), "_", Digit(rnd)>>

\* the first index where "||" starts, 0 when there is none
DelimAt(text) ==
    IF \E i \in 1..(Len(text) - 1) : SubSeq(text, i, i + 1) = Delim
    THEN CHOOSE i \in 1..(Len(text) - 1) :
            /\ SubSeq(text, i, i + 1) = Delim
            /\ \A k \in 1..(i - 1) : SubSeq(text, k, k + 1) # Delim
    ELSE 0

\* prev.split("||")
RECURSIVE splitDraft(_)
splitDraft(text) ==
    IF DelimAt(text) = 0 THEN <<text>>
    ELSE <<SubSeq(text, 1, DelimAt(text) - 1)>>
            \o splitDraft(SubSeq(text, DelimAt(text) + 2, Len(text)))

\* parts[k - 1] || ""
Part(parts, k) == IF k <= Len(parts) THEN parts[k] ELSE <<>>

\* registerOrUpdateUser(userId, firstName, lastName, username, null) of the
\* earlier program: a known row keeps its email, a new row has none
registerOrUpdateUserLegacy(rows, userId, t) ==
    IF findIndexByFirstCol(rows, userId) > -1 THEN rows
    ELSE Append(rows, [key |-> userId, email |-> <<>>, emailConfirmed |-> "No",
                       joinedAt |-> t, lastActive |-> t])

\* (history only) the answers of the conversation, as they were entered
Entered(text) == [pc |-> "draft", entered |-> Append(inflight.entered, text)]

\* one step of a conversation: the session row is written, the recorded
\* menu deleted, the next question sent
DraftStep(u, route, text, fields, answered) ==
    /\ Users' = registerOrUpdateUserLegacy(Users, u, now)
    /\ State' = deleteMenuIfExists(setUserStateFields(State, u, fields), u, NoMenu)
    /\ Chat(u, Deleted(State, u, NoMenu), FALSE)
    /\ lastEvt' = Found(u, route, text)
    /\ inflight' = IF answered THEN Entered(trim(text))
                   ELSE [pc |-> "draft", entered |-> <<>>]
    /\ UNCHANGED <<now, Tickets, TicketRateLimits, EmailLog, nextMid, callLog,
                   InvestRequests, WithdrawRequests, reply, sync, deliveries,
                   Announcements, BroadcastLogs, FilteredBroadcast, batch>>

\* cd === "invest_done" / cd === "withdraw_start"
CbDraftStart(u, cd) ==
    /\ cd \in {"invest_done", "withdraw_start"}
    /\ DraftStep(u, cd, <<>>,
                 [step |-> IF cd = "invest_done" THEN "awaiting_invest_fullname"
                           ELSE "awaiting_withdraw_fullname",
                  tempData |-> <<>>], FALSE)

\* step === "awaiting_invest_fullname" && text
TextInvestFullname(u, raw) ==
    /\ StepOf(State, u) = "awaiting_invest_fullname" /\ raw # <<>>
    /\ IF trim(raw) = <<>>
       THEN /\ Users' = registerOrUpdateUserLegacy(Users, u, now)
            /\ lastEvt' = Said(Found(u, "awaiting_invest_fullname", raw), "invalid_name")
            /\ UNCHANGED <<now, State, Tickets, TicketRateLimits, EmailLog, nextMid,
                           chatMenus, callLog>>
            /\ UNCHANGED syncVars
       ELSE DraftStep(u, "awaiting_invest_fullname", raw,
                      [step |-> "awaiting_invest_tx", tempData |-> trim(raw)], TRUE)

\* step === "awaiting_invest_tx" && text
TextInvestTx(u, raw) ==
    LET prev == getUserState(State, u).tempData IN
    /\ StepOf(State, u) = "awaiting_invest_tx" /\ raw # <<>>
    /\ DraftStep(u, "awaiting_invest_tx", raw,
                 [step |-> "awaiting_invest_duration",
                  tempData |-> prev \o Delim \o trim(raw)], TRUE)

\* step === "awaiting_invest_duration" && text
TextInvestDuration(u, raw) ==
    LET parts == splitDraft(getUserState(State, u).tempData) IN
    /\ StepOf(State, u) = "awaiting_invest_duration" /\ raw # <<>>
    /\ DraftStep(u, "awaiting_invest_duration", raw,
                 [step |-> "awaiting_invest_amount",
                  tempData |-> Part(parts, 1) \o Delim \o Part(parts, 2)
                                  \o Delim \o trim(raw)], TRUE)

\* the last step of a conversation: the row is appended, the session cleared
DraftEnd(u, route, text) ==
    /\ Users' = registerOrUpdateUserLegacy(Users, u, now)
    /\ State' = deleteMenuIfExists(clearUserState(State, u), u, NoMenu)
    /\ Chat(u, Deleted(clearUserState(State, u), u, NoMenu), FALSE)
    /\ lastEvt' = Found(u, route, text)
    /\ inflight' = Entered(trim(text))
    /\ UNCHANGED <<now, Tickets, TicketRateLimits, EmailLog, nextMid, callLog,
                   reply, sync, deliveries,
                   Announcements, BroadcastLogs, FilteredBroadcast, batch>>

\* step === "awaiting_invest_amount" && text
TextInvestAmount(u, raw, rnd) ==
    LET parts == splitDraft(getUserState(State, u).tempData)
        userRec == getUserById(registerOrUpdateUserLegacy(Users, u, now), u)
    IN /\ StepOf(State, u) = "awaiting_invest_amount" /\ raw # <<>>
       /\ Len(InvestRequests) + Len(WithdrawRequests) < MaxDrafts
       /\ InvestRequests' = Append(InvestRequests,
            [fullName |-> Part(parts, 1), email |-> userRec.email,
             tx |-> Part(parts, 2), duration |-> Part(parts, 3),
             amount |-> trim(raw)] @@ NewRequest(RequestId(Txt_inv, now, rnd), u, now))
       /\ UNCHANGED WithdrawRequests
       /\ DraftEnd(u, "awaiting_invest_amount", raw)

\* step === "awaiting_withdraw_fullname" && text
TextWithdrawFullname(u, raw) ==
    /\ StepOf(State, u) = "awaiting_withdraw_fullname" /\ raw # <<>>
    /\ DraftStep(u, "awaiting_withdraw_fullname", raw,
                 [step |-> "awaiting_withdraw_wallet", tempData |-> trim(raw)], TRUE)

\* step === "awaiting_withdraw_wallet" && text
TextWithdrawWallet(u, raw) ==
    LET prev == getUserState(State, u).tempData IN
    /\ StepOf(State, u) = "awaiting_withdraw_wallet" /\ raw # <<>>
    /\ DraftStep(u, "awaiting_withdraw_wallet", raw,
                 [step |-> "awaiting_withdraw_amount",
                  tempData |-> prev \o Delim \o trim(raw)], TRUE)

\* step === "awaiting_withdraw_amount" && text
TextWithdrawAmount(u, raw, rnd) ==
    LET parts == splitDraft(getUserState(State, u).tempData)
        userRec == getUserById(registerOrUpdateUserLegacy(Users, u, now), u)
    IN /\ StepOf(State, u) = "awaiting_withdraw_amount" /\ raw # <<>>
       /\ Len(InvestRequests) + Len(WithdrawRequests) < MaxDrafts
       /\ WithdrawRequests' = Append(WithdrawRequests,
            [fullName |-> Part(parts, 1), email |-> userRec.email,
             wallet |-> Part(parts, 2),
             amount |-> trim(raw)] @@ NewRequest(RequestId(Txt_wdr, now, rnd), u, now))
       /\ UNCHANGED InvestRequests
       /\ DraftEnd(u, "awaiting_withdraw_amount", raw)

DraftActors == {"u1"}
DraftTexts == {<<"n">>, <<"a", "|", "|", "b">>, <<" ">>}

NextDraft ==
    \E u \in DraftActors :
        \/ \E cd \in {"invest_done", "withdraw_start"} : CbDraftStart(u, cd)
        \/ \E raw \in DraftTexts : TextInvestFullname(u, raw)
        \/ \E raw \in DraftTexts : TextInvestTx(u, raw)
        \/ \E raw \in DraftTexts : TextInvestDuration(u, raw)
        \/ \E raw \in DraftTexts, rnd \in Rands : TextInvestAmount(u, raw, rnd)
        \/ \E raw \in DraftTexts : TextWithdrawFullname(u, raw)
        \/ \E raw \in DraftTexts : TextWithdrawWallet(u, raw)
        \/ \E raw \in DraftTexts, rnd \in Rands : TextWithdrawAmount(u, raw, rnd)

SpecDraft == InitFlow /\ [][NextDraft]_vars

\* the row just appended carries the answers in the order they were given
InvestAsEntered ==
    LET row == InvestRequests'[Len(InvestRequests')]
        e == inflight'.entered
    IN /\ Len(e) = 4
       /\ row.fullName = e[1] /\ row.tx = e[2]
       /\ row.duration = e[3] /\ row.amount = e[4]
       /\ row.status = Txt_Pending /\ row.notified = Txt_No

WithdrawAsEntered ==
    LET row == WithdrawRequests'[Len(WithdrawRequests')]
        e == inflight'.entered
    IN /\ Len(e) = 3
       /\ row.fullName = e[1] /\ row.wallet = e[2] /\ row.amount = e[3]
       /\ row.status = Txt_Pending /\ row.notified = Txt_No

\* C30: the Request row appended at the last step of the investment and of
\* the withdrawal conversation carries the full name, the tx hash or wallet,
\* the duration and the amount as the user entered them (surrounding blanks
\* aside), for every text including one that contains "||", with status
\* Pending and notified No.
C30_RequestAsEntered ==
    [][/\ (InvestRequests' # InvestRequests => InvestAsEntered)
       /\ (WithdrawRequests' # WithdrawRequests => WithdrawAsEntered)]_vars

----------------------------------------------------------------------------
(* SpecReg: two new users walking through the two-step registration, their *)
(* events handled one after another in any order                           *)

RegActors == {"u1", "u2"}
RegTexts == {Email_a, Email_A, Txt_start}

InitReg ==
    /\ now = 0
    /\ Users = <<>>
    /\ State = <<>>
    /\ Tickets = <<>>
    /\ TicketRateLimits = <<>>
    /\ EmailLog = <<>>
    /\ nextMid = 1
    /\ callLog = [k \in RateUsers \X RateActions |-> <<>>]
    /\ lastEvt = NoEvt
    /\ NoSync

NextReg ==
    \E u \in RegActors :
        \/ \E raw \in RegTexts, ok \in BOOLEAN : TextStart(u, raw, ok)
        \/ \E raw \in RegTexts : TextEmail1(u, raw)
        \/ \E raw \in RegTexts, ok \in BOOLEAN : TextEmail2(u, raw, ok)

SpecReg == InitReg /\ [][NextReg]_vars

\* the rows of two identities carry the same confirmed email, ignoring case
SameConfirmedEmail(i, j) ==
    /\ Users[i].key # Users[j].key
    /\ Users[i].email # <<>>
    /\ Users[i].emailConfirmed = "Yes" /\ Users[j].emailConfirmed = "Yes"
    /\ toLowerCase(Users[i].email) = toLowerCase(Users[j].email)

\* C31: in every reachable state no two distinct user identities hold the
\* same confirmed email (ignoring case), for any interleaving of the
\* two-step registrations of different users.
C31_ConfirmedEmailUnique ==
    \A i, j \in 1..Len(Users) : ~SameConfirmedEmail(i, j)

----------------------------------------------------------------------------
(* The answer handler and the sync scan delivering the same answer, under *)
(* SpecTickets                                                             *)

\* the answer of the row has been handed to the transport for its owner
HandedOver(row) ==
    \E d \in deliveries : d.kind = "ticket" /\ d.key = row.key /\ d.body = row.answer

\* this step is the sendMessage of the answer handler
ReplyDelivers == reply.pc = "written" /\ reply'.pc = "sent"

\* this step is the sendMessage of the scan for the row it is at
SyncDelivers == sync.pc = "tickets" /\ sync'.sent = sync.sent + 1

\* C32: each ticket answer is delivered to the ticket's owner at most once,
\* for every interleaving of the answer handler with the sync scans: no
\* step sends an answer that was sent for that ticket before.
C32_AnswerDeliveredOnce ==
    [][/\ (ReplyDelivers => ~HandedOver(reply.row))
       /\ (SyncDelivers => ~HandedOver(sync.snap[sync.i]))]_vars

----------------------------------------------------------------------------
(* SpecDup: the ticket-message handler taken apart at the awaits between  *)
(* its getUserState and its appendRow; the webhook starts a handler per   *)
(* request, so two text events of one user can both have read the session *)
(* before either clears it.  The clock stands still, so the count of the  *)
(* TicketRateLimits row is the number of calls that were allowed.         *)

DupActors == {"u1"}

\* the handler has upserted the user and read the session: step is
\* awaiting_ticket_message
TicketMessageBegin(u, raw) ==
    LET text == trim(raw) IN
    /\ TextRoute(u, getUserState(State, u).step, text) = "awaiting_ticket_message"
    /\ Len(Reads) < MaxHandlers
    /\ Users' = Upsert(u)
    /\ lastEvt' = Found(u, "awaiting_ticket_message", text)
    /\ inflight' = Pending(Append(Reads,
                      [user |-> u, email |-> getUserState(State, u).tempData,
                       text |-> text]))
    /\ UNCHANGED <<now, State, Tickets, TicketRateLimits, EmailLog, nextMid, chatMenus,
                   callLog, InvestRequests, WithdrawRequests, reply, sync, deliveries,
                   Announcements, BroadcastLogs, FilteredBroadcast, batch>>

\* appendRow("Tickets", ...), clearUserState, deleteMenuIfExists, the
\* messages and the mail, from what the handler read
TicketMessageEnd(k, rnd) ==
    /\ k \in 1..Len(Reads)
    /\ Len(Tickets) < MaxTickets
    /\ LET h == Reads[k] IN
         /\ Tickets' = Append(Tickets,
                          NewTicket(TicketId(now, rnd), h.user, h.email, h.text, now))
         /\ State' = deleteMenuIfExists(clearUserState(State, h.user), h.user, NoMenu)
         /\ EmailLog' = canSendEmailToUser(EmailLog, h.user, h.email, now).rows
         /\ Chat(h.user, Deleted(clearUserState(State, h.user), h.user, NoMenu), FALSE)
    /\ inflight' = Pending(Without(Reads, k))
    /\ UNCHANGED <<now, Users, TicketRateLimits, nextMid, callLog, lastEvt,
                   InvestRequests, WithdrawRequests, reply, sync, deliveries,
                   Announcements, BroadcastLogs, FilteredBroadcast, batch>>

NextDup ==
    \/ \E u \in DupActors : CbSupportTicket(u)
    \/ \E u \in DupActors, raw \in FlowTexts : TextTicketEmail1(u, raw)
    \/ \E u \in DupActors, raw \in FlowTexts : TextTicketEmail2(u, raw)
    \/ \E u \in DupActors, raw \in TicketTexts : TicketMessageBegin(u, raw)
    \/ \E k \in 1..MaxHandlers, rnd \in Rands : TicketMessageEnd(k, rnd)

SpecDup == InitFlow /\ [][NextDup]_vars

TicketsOf(u) == Cardinality({i \in 1..Len(Tickets) : Tickets[i].userId = u})

\* the calls of canSendTicket that were allowed for the user
AllowedTicketCalls(u) ==
    LET idx == findIndexByFirstCol(TicketRateLimits, u) IN
    IF idx = -1 THEN 0 ELSE TicketRateLimits[idx].count

\* C33: for every user the number of Ticket rows created never exceeds the
\* number of allowed canSendTicket calls of that user, also when two text
\* events of the user are handled concurrently at step
\* awaiting_ticket_message.
C33_TicketsWithinAllowedCalls ==
    \A u \in DupActors : TicketsOf(u) <= AllowedTicketCalls(u)

----------------------------------------------------------------------------
(* SpecRace: canSendTicket and canSendEmailToUser taken apart at the await *)
(* between readSheet and updateRow / appendRow, called by concurrent       *)
(* handlers of one identity.  The clock stands still: every call falls in  *)
(* the window opened by the first one, and no reset happens.               *)

\* the limiter up to its write: the decision is taken from the rows read; a
\* denial returns at once, an allowed call goes on to write its row
LimiterRead(u, action) ==
    LET data == IF action = "ticket" THEN TicketRateLimits ELSE EmailLog
        r == IF action = "ticket" THEN canSendTicket(data, u, now)
             ELSE canSendEmailToUser(data, u, <<>>, now)
    IN /\ TotalCalls < MaxCalls
       /\ r.ok => Len(Reads) < MaxHandlers
       /\ callLog' = [callLog EXCEPT ![<<u, action>>] =
                          Append(@, [t |-> now, ok |-> r.ok])]
       /\ inflight' = IF r.ok
                      THEN Pending(Append(Reads, WriteOf(action, data, r.rows, u)))
                      ELSE inflight
       /\ UNCHANGED <<now, Users, State, Tickets, TicketRateLimits, EmailLog, nextMid,
                      chatMenus, lastEvt, InvestRequests, WithdrawRequests, reply,
                      sync, deliveries, Announcements, BroadcastLogs, FilteredBroadcast,
                      batch>>

\* updateRow(sheet, idx + 1, row) / appendRow(sheet, row)
LimiterWrite(k) ==
    /\ k \in 1..Len(Reads)
    /\ LET w == Reads[k] IN
         IF w.sheet = "ticket"
         THEN TicketRateLimits' = Written(TicketRateLimits, w) /\ UNCHANGED EmailLog
         ELSE EmailLog' = Written(EmailLog, w) /\ UNCHANGED TicketRateLimits
    /\ inflight' = Pending(Without(Reads, k))
    /\ UNCHANGED <<now, Users, State, Tickets, nextMid, chatMenus, callLog, lastEvt,
                   InvestRequests, WithdrawRequests, reply, sync, deliveries,
                   Announcements, BroadcastLogs, FilteredBroadcast, batch>>

NextRace ==
    \/ \E u \in RateUsers, action \in RateActions : LimiterRead(u, action)
    \/ \E k \in 1..MaxHandlers : LimiterWrite(k)

SpecRace == InitRate /\ [][NextRace]_vars

\* the calls of the log that were allowed
AllowedCalls(log) == Cardinality({i \in 1..Len(log) : log[i].ok})

\* C34: for any interleaving of concurrent calls of a limiter for the same
\* identity and action, at most Limit calls are allowed between two window
\* resets.
C34_LimitHoldsUnderConcurrency ==
    \A k \in RateUsers \X RateActions : AllowedCalls(callLog[k]) <= Limit

----------------------------------------------------------------------------
(* SpecFields: setUserStateFields called by two handlers of the same user, *)
(* each taken apart at the await between readSheet and updateRow           *)

FieldSets == {[lastMenu |-> 1],
              [step |-> "awaiting_ticket_message", tempData |-> Email_a]}

\* setUserStateFields(userId, fields) up to its write; the fields it was
\* called with are kept with the pending write (history only)
StateFieldsRead(u, fields) ==
    /\ Len(Reads) < MaxHandlers
    /\ inflight' = Pending(Append(Reads,
                      [fields |-> fields]
                         @@ WriteOf("State", State, setUserStateFields(State, u, fields), u)))
    /\ UNCHANGED <<now, Users, State, Tickets, TicketRateLimits, EmailLog, nextMid,
                   chatMenus, callLog, lastEvt, InvestRequests, WithdrawRequests, reply,
                   sync, deliveries, Announcements, BroadcastLogs, FilteredBroadcast, batch>>

\* clearUserState(userId): updateRow(..., [userId, "", "", "", ""])
StateCleared(u) ==
    /\ State' = clearUserState(State, u)
    /\ State' # State
    /\ UNCHANGED <<now, Users, Tickets, TicketRateLimits, EmailLog, nextMid,
                   chatMenus, callLog, lastEvt, InvestRequests, WithdrawRequests, reply,
                   sync, deliveries, Announcements, BroadcastLogs, FilteredBroadcast, batch,
                   inflight>>

NextFields ==
    \/ \E u \in DupActors, fields \in FieldSets : StateFieldsRead(u, fields)
    \/ \E k \in 1..MaxHandlers : RowWrite(k)
    \/ \E u \in DupActors : StateCleared(u)

SpecFields == InitFlow /\ [][NextFields]_vars

\* the write of the pending call w changes the named fields of its user only
OnlyNamedFields(w) ==
    /\ \A name \in {"step", "tempData", "lastMenu", "tempEmail"} \ DOMAIN w.fields :
          getUserState(State', w.user)[name] = getUserState(State, w.user)[name]
    /\ \A i \in 1..Len(State) : State[i].key # w.user => State'[i] = State[i]

\* C35: setUserStateFields(user, fields) changes only the fields named in
\* fields and leaves the other fields of the user's row and the rows of the
\* other users unchanged, for any interleaving with another handler of the
\* same user.
C35_OnlyNamedFieldsChange ==
    [][\A k \in 1..Len(Reads) :
          inflight' = Pending(Without(Reads, k)) /\ State' = Written(State, Reads[k])
             => OnlyNamedFields(Reads[k])]_vars

----------------------------------------------------------------------------
(* The main menu sent by a handler and the session's lastMenu, under Spec *)

\* the last handler sent a menu and the transport delivered it
MenuJustSent == lastEvt.issued = "send"

\* C36: whenever a handler has sent a main-menu message successfully and
\* finished, the session's lastMenu is that message's id, in particular
\* after a successful email confirmation, and no menu message is in the
\* chat without being tracked.
C36_SentMenuIsTracked ==
    /\ MenuJustSent => TrackedNow(lastEvt.user) = nextMid - 1
    /\ \A m \in chatMenus : TrackedNow(m[1]) = m[2]

----------------------------------------------------------------------------
(* The session after /start, under Spec *)

\* C37: after a /start text event is handled the user's session is idle or
\* at the first registration email step with an empty draft, whatever step
\* it was in before; /start sent by an email-confirmed user in the middle
\* of a ticket flow leaves no ticket step behind.
C37_StartResetsSession ==
    lastEvt.route = "start" =>
        LET st == getUserState(State, lastEvt.user) IN
        \/ st.step = ""
        \/ st.step = "awaiting_email_1" /\ st.tempData = <<>>

----------------------------------------------------------------------------
(* SpecSender: the admin's selections and commands sent by the admin and  *)
(* by another sender (the identity of a sender is the chat id, userId =    *)
(* chatId)                                                                 *)

AdminSteps == {"awaiting_broadcast_message", "awaiting_filtered_ids",
               "awaiting_filtered_message", "awaiting_ticket_reply"}
AdminCallbacks == {"admin_broadcast", "admin_filtered_broadcast",
                   "admin_reply_ticket_", "admin_close"}
SenderActors == {"u1", ADMIN_CHAT_ID}
SenderTexts == {Txt_announcement, Txt_reply \o OldTicketId, Ans_B}

\* a selection with an admin_* callback id: handled inside
\* if (String(userId) === String(ADMIN_CHAT_ID)), ignored otherwise
SenderCallback(u, cd, mid) ==
    /\ cd \in AdminCallbacks
    /\ cd # "admin_close" => mid = 1
    /\ batch.pc = "idle" /\ reply.pc = "idle"
    /\ Users' = Upsert(u)
    /\ State' =
         IF ~IsAdmin(u) THEN State
         ELSE IF cd = "admin_broadcast"
         THEN setUserStateFields(State, u, [step |-> "awaiting_broadcast_message"])
         ELSE IF cd = "admin_filtered_broadcast"
         THEN setUserStateFields(State, u, [step |-> "awaiting_filtered_ids"])
         ELSE IF cd = "admin_reply_ticket_"
         THEN setUserStateFields(State, u,
                 [step |-> "awaiting_ticket_reply", tempData |-> OldTicketId])
         ELSE clearUserState(State, u)
    /\ chatMenus' = IF IsAdmin(u) /\ cd = "admin_close"
                    THEN chatMenus \ {<<u, mid>>} ELSE chatMenus
    /\ lastEvt' = Found(u, cd, <<>>)
    /\ UNCHANGED <<now, Tickets, TicketRateLimits, EmailLog, nextMid, callLog>>
    /\ UNCHANGED syncVars

\* "/announce title | text" and "/reply_<id>": routed only for the admin
SenderText(u, raw) ==
    LET text == trim(raw)
        route == TextRoute(u, getUserState(State, u).step, text)
        parts == split(dropPrefix(text, Txt_announce), "|")
        title == trim(parts[1])
        msg == IF Len(parts) > 1 THEN trim(parts[2]) ELSE <<>>
    IN /\ route \in {"announce", "reply_cmd"}
       /\ batch.pc = "idle" /\ reply.pc = "idle"
       /\ Len(Announcements) < MaxAnnouncements
       /\ Users' = Upsert(u)
       /\ Announcements' =
            IF route = "announce" /\ title # <<>> /\ msg # <<>>
            THEN Append(Announcements,
                        [key |-> Txt_ann \o <<Digit(now)>>, title |-> title,
                         message |-> msg, createdAt |-> now, active |-> Txt_Yes])
            ELSE Announcements
       /\ State' = IF route = "reply_cmd"
                   THEN setUserStateFields(State, u,
                           [step |-> "awaiting_ticket_reply",
                            tempData |-> trim(dropPrefix(text, Txt_reply))])
                   ELSE State
       /\ lastEvt' = Found(u, route, text)
       /\ UNCHANGED <<now, Tickets, TicketRateLimits, EmailLog, nextMid, chatMenus,
                      callLog, InvestRequests, WithdrawRequests, reply, sync, deliveries,
                      BroadcastLogs, FilteredBroadcast, batch, inflight>>

NextSender ==
    \/ \E u \in SenderActors, cd \in AdminCallbacks, mid \in 1..MaxMid :
          SenderCallback(u, cd, mid)
    \/ \E u \in SenderActors, raw \in SenderTexts : SenderText(u, raw)
    \/ \E u \in SenderActors, raw \in SenderTexts :
          /\ batch.pc = "idle" /\ reply.pc = "idle"
          /\ TextDefault(u, raw, FALSE)
    \/ ReplyBegin(Ans_B)
    \/ \E ok \in BOOLEAN : ReplySend(ok)
    \/ ReplyMark
    \/ TextBroadcast(Ans_B)
    \/ BatchDeliver("sent")
    \/ BatchEnd(FALSE)

\* a registered user with one open ticket, no session rows yet
InitSender ==
    /\ now = 0
    /\ Users = <<[key |-> "u1", email |-> Email_a, emailConfirmed |-> "Yes",
                  joinedAt |-> 0, lastActive |-> 0]>>
    /\ State = <<>>
    /\ Tickets = <<NewTicket(OldTicketId, "u1", Email_a, Txt_noDot, 0)>>
    /\ TicketRateLimits = <<>>
    /\ EmailLog = <<>>
    /\ InvestRequests = <<>>
    /\ WithdrawRequests = <<>>
    /\ nextMid = 1
    /\ chatMenus = {}
    /\ reply = IdleReply
    /\ sync = IdleSync
    /\ deliveries = {}
    /\ NoAdmin
    /\ callLog = [k \in RateUsers \X RateActions |-> <<>>]
    /\ lastEvt = NoEvt

SpecSender == InitSender /\ [][NextSender]_vars

\* this step puts a session into an admin-only step, starts a broadcast,
\* creates an announcement or writes the answer of a ticket
AdminEffect ==
    \/ \E i \in 1..Len(State') :
          /\ State'[i].step \in AdminSteps
          /\ getUserState(State, State'[i].key).step # State'[i].step
    \/ batch.pc = "idle" /\ batch'.pc # "idle"
    \/ Announcements' # Announcements
    \/ \E i \in 1..Len(Tickets) : Tickets'[i].answer # Tickets[i].answer

\* C38: a sender that is not the admin identity never puts a session into
\* an admin-only step, triggers a broadcast, creates an announcement or
\* writes a Ticket's answer, by any sequence of texts and menu selections,
\* admin_* callback ids included; and no session but the admin's is ever in
\* an admin-only step.
C38_AdminOnlyEffects ==
    /\ [][AdminEffect => lastEvt'.user = ADMIN_CHAT_ID]_vars
    /\ [](\A i \in 1..Len(State) :
             State[i].step \in AdminSteps => State[i].key = ADMIN_CHAT_ID)

\* another sender has just selected an admin_* callback or sent an admin
\* command, and its session is in no admin-only step
C38_Witness ==
    /\ lastEvt.user = "u1"
    /\ \/ lastEvt.route \in AdminCallbacks
       \/ startsWith(lastEvt.text, Txt_announce)
       \/ startsWith(lastEvt.text, Txt_reply)
    /\ getUserState(State, "u1").step \notin AdminSteps
    /\ Announcements = <<>>

----------------------------------------------------------------------------
(* the counts of a batch, in SpecBatch                                     *)

\* the non-empty recipients the batch has attempted
RecipientsAttempted == Len(batch.attempted)

\* C39: at the end of every broadcast and filtered-broadcast batch sent +
\* failed equals the number of non-empty recipients attempted, each counted
\* once as sent or as failed, also when the BroadcastLogs append for a
\* delivery that was made fails.
C39_EachRecipientCountedOnce ==
    Ended => batch.sent + batch.failed = RecipientsAttempted

----------------------------------------------------------------------------
(* SpecUpsert: the registration of SpecReg for one sender, with the        *)
(* per-event registerOrUpdateUser(userId, ..., null, null) of another      *)
(* event of the same sender taken apart at the await between its readSheet *)
(* and its updateRow / appendRow                                           *)

UpsertActors == {"u1"}

NextUpsert ==
    \/ \E u \in UpsertActors, raw \in RegTexts : TextStart(u, raw, FALSE)
    \/ \E u \in UpsertActors, raw \in RegTexts : TextEmail1(u, raw)
    \/ \E u \in UpsertActors, raw \in RegTexts : TextEmail2(u, raw, FALSE)
    \/ \E u \in UpsertActors : inflight.pc # "draft" /\ UsersRead(u, FALSE)
    \/ \E k \in 1..MaxHandlers : inflight.pc # "draft" /\ RowWrite(k)

SpecUpsert == InitReg /\ [][NextUpsert]_vars

\* this step is the handling of a second email that matches the first
EmailConfirmation ==
    /\ inflight' = inflight
    /\ lastEvt'.route = "awaiting_email_2"
    /\ ~Mismatch(lastEvt'.text, lastEvt'.tempData)

EmailFieldsKept(i) ==
    /\ Users'[i].email = Users[i].email
    /\ Users'[i].emailConfirmed = Users[i].emailConfirmed

\* C40: handling an event that is not a successful email confirmation
\* leaves email and emailConfirmed of every Users row as they were, and
\* emailConfirmed never goes from Yes back to No.
C40_EmailFieldsFrame ==
    [][\A i \in 1..Len(Users) :
          /\ ~EmailConfirmation => EmailFieldsKept(i)
          /\ Users[i].emailConfirmed = "Yes" => Users'[i].emailConfirmed = "Yes"]_vars

====
